---------------------------- MODULE Spec2Model ----------------------------
(***************************************************************************)
(* Model of the scoutfs extended-attribute code, kmod/src/xattr.c.         *)
(*                                                                         *)
(* An attribute is a header, a name and a value, packed into one or more   *)
(* items of the item store under the key (ino, name_hash, id, part).       *)
(* Bytes are modelled as strings.  The reserved prefix "scoutfs." and the  *)
(* tags "hide." "srch." "totl." "worm." are one byte each, so the lengths  *)
(* and sizes of format.h are scaled down; their order relations are kept   *)
(* (a part holds the header, the longest name and the longest total        *)
(* value).                                                                 *)
(***************************************************************************)
EXTENDS Integers, Sequences, FiniteSets, TLC

\* ------------------------------------------------------------------------
\* Sizes of format.h, scaled down.
\* ------------------------------------------------------------------------

\* sizeof(struct scoutfs_xattr): name_len, val_len (padding left out)
HdrSize == 2
\* SCOUTFS_XATTR_MAX_PART_SIZE
PartSize == 12
\* SCOUTFS_XATTR_MAX_NAME_LEN
MaxNameLen == 8
\* SCOUTFS_XATTR_MAX_VAL_LEN
MaxValLen == 44
\* SCOUTFS_XATTR_MAX_TOTL_U64
MaxTotlU64 == 2
\* the width of a u64, scaled: arithmetic on totals is modulo U64Mod
U64Mod == 16
\* the number of values of the u32 name hash, scaled
HashBuckets == 3
\* SCOUTFS_XATTR_PREFIX_LEN and TAG_LEN, in bytes of the model
PrefixLen == 1
TagLen == 1

\* errno values
EPERM == -1
ENOENT == -2
EIO == -5
E2BIG == -7
ENOMEM == -12
EACCES == -13
EEXIST == -17
EINVAL == -22
ERANGE == -34
ENODATA == -61
EOPNOTSUPP == -95

\* XATTR_CREATE and XATTR_REPLACE, as the set of flags of a call
XATTR_CREATE == "XATTR_CREATE"
XATTR_REPLACE == "XATTR_REPLACE"

\* the NULL value pointer
NULL == <<"NULL">>

Min(a, b) == IF a < b THEN a ELSE b

\* DIV_ROUND_UP
DivRoundUp(n, d) == (n + d - 1) \div d

\* bytes [from, from+len) of a buffer, 0-based, cut at its end
Slice(buf, from, len) ==
    SubSeq(buf, from + 1, Min(from + len, Len(buf)))

\* ------------------------------------------------------------------------
\* Bytes
\* ------------------------------------------------------------------------

HexDigits == <<"0", "1", "2", "3", "4", "5", "6", "7", "8", "9",
               "a", "b", "c", "d", "e", "f">>

\* the value of a digit in the given base, -1 when it is none
DigitVal(c, base) ==
    IF \E i \in 1..base : HexDigits[i] = c
    THEN (CHOOSE i \in 1..base : HexDigits[i] = c) - 1
    ELSE -1

\* a byte that ends in '.'
IsDot(c) == c \in {".", "scoutfs.", "user.", "trusted.", "system.",
                   "security.", "hide.", "srch.", "totl.", "worm."}

\* the length fields of the header are stored as one byte each
LenBytes == [n \in 0..(MaxValLen + 1) |-> ToString(n)]

LenByte(n) == LenBytes[n]

ByteLens ==
    [c \in {LenBytes[n] : n \in 0..(MaxValLen + 1)} |->
        CHOOSE n \in 0..(MaxValLen + 1) : LenBytes[n] = c]

\* a byte that is no length reads as a length out of range
ByteLen(c) == IF c \in DOMAIN ByteLens THEN ByteLens[c] ELSE MaxValLen + 1

\* struct scoutfs_xattr as the set and remove code fills it in
xattr_bytes(name, value) ==
    <<LenByte(Len(name)), LenByte(Len(value))>> \o name \o value

\* xat->name_len, le16_to_cpu(xat->val_len), xat->name of a buffer that
\* holds at least the header
xat_name_len(xat) == ByteLen(xat[1])
xat_val_len(xat) == ByteLen(xat[2])
xat_name(xat) == Slice(xat, HdrSize, xat_name_len(xat))
xat_value(xat) == Slice(xat, HdrSize + xat_name_len(xat), xat_val_len(xat))

\* a byte of a buffer that no item was read into: whatever the memory held
Stale == "stale"

\* the name_len bytes at xat->name of a buffer that holds at least the
\* header, the bytes past the ones read being stale
xat_name_buf(xat) ==
    [i \in 1..xat_name_len(xat) |->
        IF HdrSize + i <= Len(xat) THEN xat[HdrSize + i] ELSE Stale]

xattr_full_bytes(xat) == HdrSize + xat_name_len(xat) + xat_val_len(xat)

\* SCOUTFS_XATTR_NR_PARTS
NrParts(name_len, val_len) == DivRoundUp(HdrSize + name_len + val_len, PartSize)

xattr_nr_parts(xat) == NrParts(xat_name_len(xat), xat_val_len(xat))

\* ------------------------------------------------------------------------
\* Names: hash, prefix, tags
\* ------------------------------------------------------------------------

\* crc32c stands for a sum of byte codes: names that differ can collide
ByteCode(c) ==
    IF c \in {"a", "d", "scoutfs.", "1", "."} THEN 0
    ELSE IF c \in {"b", "user.", "2", "hide."} THEN 1
    ELSE IF c \in {"c", "totl.", "3"} THEN 2
    ELSE IF c \in {"srch.", "4"} THEN 3
    ELSE 4

RECURSIVE SumCodes(_)
SumCodes(s) == IF s = <<>> THEN 0 ELSE ByteCode(Head(s)) + SumCodes(Tail(s))

xattr_name_hash(name) == SumCodes(name) % HashBuckets

\* scoutfs_hash64 of the name, for the search index
scoutfs_hash64(name) == (SumCodes(name) + Len(name)) % (HashBuckets + 2)

\* a comparison of the lengths alone
xattr_names_equal_len(a_name, a_len, b_name, b_len) == a_len = b_len

\* a comparison that reads the result of memcmp the other way round
xattr_names_equal_inverted(a_name, a_len, b_name, b_len) ==
    a_len = b_len /\ Slice(a_name, 0, a_len) # Slice(b_name, 0, b_len)

\* a comparison that takes the names of one hash for one name
xattr_names_equal_hash(a_name, a_len, b_name, b_len) == TRUE

\* "only compare names if the lens match": b_len is the length that the
\* header of the item gives, of which the buffer may hold less
xattr_names_equal(a_name, a_len, b_name, b_len) ==
    a_len = b_len /\ Slice(a_name, 0, a_len) = Slice(b_name, 0, b_len)

unknown_prefix(name) ==
    ~(name # <<>> /\ Head(name) \in {"user.", "trusted.", "system.",
                                     "security.", "scoutfs."})

NoTags == [hide |-> 0, srch |-> 0, totl |-> 0, worm |-> 0]

\* ++tgs->hide on a one-bit field: the second increment wraps it to 0
TagInc(v) == (v + 1) % 2

\* the loop of scoutfs_xattr_parse_tags from position pos (1-based)
RECURSIVE parse_tags_loop(_, _, _, _, _)
parse_tags_loop(name, pos, tgs, found, fmt_vers) ==
    LET c == IF pos <= Len(name) THEN name[pos] ELSE ""
    IN  IF c = "hide." THEN
            IF TagInc(tgs.hide) = 0 THEN [ret |-> EINVAL, tgs |-> tgs]
            ELSE parse_tags_loop(name, pos + TagLen,
                                 [tgs EXCEPT !.hide = 1], TRUE, fmt_vers)
        ELSE IF c = "srch." THEN
            IF TagInc(tgs.srch) = 0 THEN [ret |-> EINVAL, tgs |-> tgs]
            ELSE parse_tags_loop(name, pos + TagLen,
                                 [tgs EXCEPT !.srch = 1], TRUE, fmt_vers)
        ELSE IF c = "totl." THEN
            IF TagInc(tgs.totl) = 0 THEN [ret |-> EINVAL, tgs |-> tgs]
            ELSE parse_tags_loop(name, pos + TagLen,
                                 [tgs EXCEPT !.totl = 1], TRUE, fmt_vers)
        ELSE IF c = "worm." THEN
            IF TagInc(tgs.worm) = 0 \/ fmt_vers < 2
            THEN [ret |-> EINVAL, tgs |-> tgs]
            ELSE parse_tags_loop(name, pos + TagLen,
                                 [tgs EXCEPT !.worm = 1], TRUE, fmt_vers)
        ELSE IF ~found THEN [ret |-> EINVAL, tgs |-> tgs]
        ELSE [ret |-> 0, tgs |-> tgs]

scoutfs_xattr_parse_tags(name, fmt_vers) ==
    IF Len(name) < PrefixLen + TagLen + 1 \/ Head(name) # "scoutfs."
    THEN [ret |-> 0, tgs |-> NoTags]
    ELSE parse_tags_loop(name, PrefixLen + 1, NoTags, FALSE, fmt_vers)

\* ------------------------------------------------------------------------
\* Totals: the u64 grammar, the key, the delta
\* ------------------------------------------------------------------------

\* _parse_integer: the digits of s from pos in the base; stops at the
\* first byte that is no digit; ovf when the value passes a u64
RECURSIVE parse_integer(_, _, _, _, _)
parse_integer(s, pos, base, acc, n) ==
    IF pos > Len(s) \/ DigitVal(s[pos], base) < 0
    THEN [val |-> acc, n |-> n, ovf |-> FALSE]
    ELSE LET v == acc * base + DigitVal(s[pos], base)
         IN  IF v >= U64Mod THEN [val |-> 0, n |-> n + 1, ovf |-> TRUE]
             ELSE parse_integer(s, pos + 1, base, v, n + 1)

\* kstrtoull(str, 0, res): the base from the prefix, then digits to the end.
\* CHOOSE res \in {e : r \in {c}} : TRUE is e with r standing for the result
\* of the call c.
kstrtoull(s) ==
    LET hex  == Len(s) >= 3 /\ s[1] = "0" /\ s[2] = "x" /\ DigitVal(s[3], 16) >= 0
        base == IF s # <<>> /\ s[1] = "0" THEN (IF hex THEN 16 ELSE 8) ELSE 10
        from == IF hex THEN 3 ELSE 1
    IN  CHOOSE res \in
          {IF r.ovf \/ r.n = 0 THEN [ret |-> EINVAL, val |-> 0]
           ELSE IF from + r.n <= Len(s)
                   /\ ~(from + r.n = Len(s) /\ s[from + r.n] = "\n")
                THEN [ret |-> EINVAL, val |-> 0]
           ELSE [ret |-> 0, val |-> r.val] :
           r \in {parse_integer(s, from, base, 0, 0)}} : TRUE

parse_totl_u64(s) ==
    IF Len(s) <= 0 \/ Len(s) >= MaxTotlU64 + 1 \/ s[1] = "+" \/ s[Len(s)] = "\n"
    THEN [ret |-> EINVAL, val |-> 0]
    ELSE kstrtoull(s)

\* the loop of parse_totl_key: i runs down from name_len - 1 (0-based)
RECURSIVE parse_totl_key_loop(_, _, _, _)
parse_totl_key_loop(name, i, end, tot) ==
    IF i < 0 \/ Len(tot) >= 3 THEN [ret |-> 0, tot |-> tot]
    ELSE IF ~IsDot(name[i + 1]) THEN parse_totl_key_loop(name, i - 1, end, tot)
    ELSE CHOOSE res \in
           {IF r.ret < 0 THEN [ret |-> r.ret, tot |-> tot]
            ELSE parse_totl_key_loop(name, i - 1, i, Append(tot, r.val)) :
            r \in {parse_totl_u64(Slice(name, i + 1, end - (i + 1)))}} : TRUE

\* a key in the order in which the fields were parsed
parse_totl_key_no_swap(name) ==
    CHOOSE res \in
      {IF r.ret < 0 THEN [ret |-> r.ret, key |-> <<>>]
       ELSE IF Len(r.tot) = 3
            THEN [ret |-> 0, key |-> <<r.tot[1], r.tot[2], r.tot[3]>>]
       ELSE [ret |-> EINVAL, key |-> <<>>] :
       r \in {parse_totl_key_loop(name, Len(name) - 1, Len(name), <<>>)}} : TRUE

\* the key <<a, b, c>> of the total, in the order the name writes it
parse_totl_key(name) ==
    CHOOSE res \in
      {IF r.ret < 0 THEN [ret |-> r.ret, key |-> <<>>]
       ELSE IF Len(r.tot) = 3
            THEN [ret |-> 0, key |-> <<r.tot[3], r.tot[2], r.tot[1]>>]
       ELSE [ret |-> EINVAL, key |-> <<>>] :
       r \in {parse_totl_key_loop(name, Len(name) - 1, Len(name), <<>>)}} : TRUE

ZeroTval == [total |-> 0, count |-> 0]

\* le64_add_cpu and negation on the scaled u64
U64Add(a, b) == (a + b) % U64Mod
U64Neg(a) == (U64Mod - a) % U64Mod

SCOUTFS_DELTA_COMBINED == "COMBINED"
SCOUTFS_DELTA_COMBINED_NULL == "COMBINED_NULL"

\* a merge that reports null when one of the sums is zero
scoutfs_xattr_combine_totl_either(dst, src) ==
    LET d == [total |-> U64Add(dst.total, src.total),
              count |-> U64Add(dst.count, src.count)]
    IN  [dst |-> d,
         ret |-> IF d.total = 0 \/ d.count = 0
                 THEN SCOUTFS_DELTA_COMBINED_NULL ELSE SCOUTFS_DELTA_COMBINED]

scoutfs_xattr_combine_totl(dst, src) ==
    LET d == [total |-> U64Add(dst.total, src.total),
              count |-> U64Add(dst.count, src.count)]
    IN  [dst |-> d,
         ret |-> IF d.total = 0 /\ d.count = 0
                 THEN SCOUTFS_DELTA_COMBINED_NULL ELSE SCOUTFS_DELTA_COMBINED]

\* ------------------------------------------------------------------------
\* The item store, as this code uses it
\* ------------------------------------------------------------------------

\* init_xattr_key: the key of part 0
init_xattr_key(ino, name_hash, id) == <<ino, name_hash, id, 0>>

KeyPart(key, part) == <<key[1], key[2], key[3], part>>

\* the order of keys: ino, name_hash, id, part
KeyLess(a, b) ==
    \/ a[1] < b[1]
    \/ a[1] = b[1] /\ a[2] < b[2]
    \/ a[1] = b[1] /\ a[2] = b[2] /\ a[3] < b[3]
    \/ a[1] = b[1] /\ a[2] = b[2] /\ a[3] = b[3] /\ a[4] < b[4]

KeyLE(a, b) == a = b \/ KeyLess(a, b)

\* scoutfs_item_next(sb, key, last, buf, cap): the first item at or after
\* key; last is the greatest attribute key of the inode, so the item is one
\* of the same inode.  Copies at most cap bytes and returns their number.
scoutfs_item_next(items, key, cap) ==
    LET cand == {k \in DOMAIN items : k[1] = key[1] /\ KeyLE(key, k)}
    IN  IF cand = {} THEN [ret |-> ENOENT, key |-> key, val |-> <<>>]
        ELSE CHOOSE res \in
               {[ret |-> Len(Slice(items[k], 0, cap)), key |-> k,
                 val |-> Slice(items[k], 0, cap)] :
                k \in {CHOOSE f \in cand : \A o \in cand : KeyLE(f, o)}} : TRUE

\* A failure to inject: the call of this kind on this key fails
NoFail == [call |-> "none", key |-> <<>>]

Hits(fail, call, key) == fail.call = call /\ fail.key = key

Ev(call, key, arg, ret) == [call |-> call, key |-> key, arg |-> arg, ret |-> ret]

\* the store without the item at key
RemoveItem(items, key) == [k \in DOMAIN items \ {key} |-> items[k]]

\* the store with the item at key set to val
PutItem(items, key, val) ==
    [k \in DOMAIN items \cup {key} |-> IF k = key THEN val ELSE items[k]]

\* What a call works on: the items, the keys dirtied in the open
\* transaction (items and totals), the totals, the search registrations
\* (how often each <<hash, ino, id>> was added) and the calls made so far.
World(items, totl, srch) ==
    [items |-> items, dirty |-> {}, totl |-> totl, srch |-> srch, trace |-> <<>>]

Log(w, call, key, arg, ret) ==
    [w EXCEPT !.trace = Append(@, Ev(call, key, arg, ret))]

\* scoutfs_item_create: can fail; a created item is dirty
scoutfs_item_create(w, key, val, fail) ==
    LET ret == IF key \in DOMAIN w.items THEN EEXIST
               ELSE IF Hits(fail, "create", key) THEN ENOMEM ELSE 0
        w1  == IF ret < 0 THEN w
               ELSE [w EXCEPT !.items = PutItem(@, key, val),
                              !.dirty = @ \cup {key}]
    IN  [ret |-> ret, w |-> Log(w1, "create", key, val, ret)]

\* scoutfs_item_dirty: can fail; changes no item
scoutfs_item_dirty(w, key, fail) ==
    LET ret == IF key \notin DOMAIN w.items THEN ENOENT
               ELSE IF Hits(fail, "dirty", key) THEN ENOMEM ELSE 0
        w1  == IF ret < 0 THEN w ELSE [w EXCEPT !.dirty = @ \cup {key}]
    IN  [ret |-> ret, w |-> Log(w1, "dirty", key, <<>>, ret)]

\* whether an update of the item can fail: not when the item is dirty and
\* the new value is no larger ("only last partial can fail")
UpdateCanFail(w, key, val) ==
    ~(key \in w.dirty /\ Len(val) <= Len(w.items[key]))

\* scoutfs_item_update
scoutfs_item_update(w, key, val, fail) ==
    LET ret == IF key \notin DOMAIN w.items THEN ENOENT
               ELSE IF Hits(fail, "update", key) /\ UpdateCanFail(w, key, val)
                    THEN ENOMEM ELSE 0
        w1  == IF ret < 0 THEN w
               ELSE [w EXCEPT !.items = PutItem(@, key, val),
                              !.dirty = @ \cup {key}]
    IN  [ret |-> ret, w |-> Log(w1, "update", key, val, ret)]

\* whether a delete of the item can fail: not when the item is dirty
\* ("We delete last after dirtying so that it can't fail")
DeleteCanFail(w, key) == key \notin w.dirty

\* scoutfs_item_delete
scoutfs_item_delete(w, key, fail) ==
    LET ret == IF key \notin DOMAIN w.items THEN ENOENT
               ELSE IF Hits(fail, "delete", key) /\ DeleteCanFail(w, key)
                    THEN ENOMEM ELSE 0
        w1  == IF ret < 0 THEN w
               ELSE [w EXCEPT !.items = RemoveItem(@, key)]
    IN  [ret |-> ret, w |-> Log(w1, "delete", key, <<>>, ret)]

\* the total of a key; a total that was never written, or was elided, is 0
Bucket(totl, tkey) == IF tkey \in DOMAIN totl THEN totl[tkey] ELSE ZeroTval

\* scoutfs_item_delta: merges tval into the total with
\* scoutfs_xattr_combine_totl; the store drops a total that combines to
\* null.  Can fail unless the total is dirty ("_delta() on dirty items
\* shouldn't fail").
scoutfs_item_delta(w, tkey, tval, fail) ==
    LET dk  == <<"totl", tkey>>
        ret == IF Hits(fail, "delta", tkey) /\ dk \notin w.dirty THEN ENOMEM ELSE 0
        t1  == CHOOSE res \in
                 {IF c.ret = SCOUTFS_DELTA_COMBINED_NULL
                  THEN [k \in DOMAIN w.totl \ {tkey} |-> w.totl[k]]
                  ELSE [k \in DOMAIN w.totl \cup {tkey} |->
                           IF k = tkey THEN c.dst ELSE w.totl[k]] :
                  c \in {scoutfs_xattr_combine_totl(Bucket(w.totl, tkey),
                                                    tval)}} : TRUE
    IN  [ret |-> ret,
         w |-> Log(IF ret < 0 THEN w
                   ELSE [w EXCEPT !.totl = t1, !.dirty = @ \cup {dk}],
                   "delta", tkey, tval, ret)]

apply_totl_delta(w, tkey, tval, fail) ==
    IF tval.total = 0 /\ tval.count = 0 THEN [ret |-> 0, w |-> w]
    ELSE scoutfs_item_delta(w, tkey, tval, fail)

\* scoutfs_forest_srch_add: registers <<hash, ino, id>>; a second
\* registration of the same entry undoes the first.  The first call of an
\* operation can fail, the one that undoes it is not injected.
scoutfs_forest_srch_add(w, hash, ino, id, fail) ==
    LET e   == <<hash, ino, id>>
        ret == IF Hits(fail, "srch", e)
                  /\ ~\E i \in 1..Len(w.trace) :
                        w.trace[i].call = "srch" /\ w.trace[i].key = e
               THEN ENOMEM ELSE 0
        w1  == IF ret < 0 THEN w
               ELSE [w EXCEPT !.srch = IF e \in @ THEN @ \ {e} ELSE @ \cup {e}]
    IN  [ret |-> ret, w |-> Log(w1, "srch", e, <<>>, ret)]

\* ------------------------------------------------------------------------
\* get_next_xattr
\* ------------------------------------------------------------------------

\* the locals of get_next_xattr before its loop; name is <<>> when no name
\* is given
get_next_init(name, name_hash, id) ==
    [hash |-> IF Len(name) > 0 THEN xattr_name_hash(name) ELSE name_hash,
     id |-> id, part |-> 0, last_part |-> 0, total |-> 0, xat |-> <<>>,
     key |-> <<>>, done |-> FALSE, ret |-> 0]

GnDone(l, ret) == [l EXCEPT !.done = TRUE, !.ret = ret]

\* one pass of the loop of get_next_xattr
get_next_iter(items, ino, bytes, name, l) ==
    CHOOSE res \in
      {LET key  == r.key
           xat  == l.xat \o r.val
           l1   == [l EXCEPT !.key = r.key, !.hash = r.key[2],
                             !.id = r.key[3], !.xat = l.xat \o r.val]
       IN  IF r.ret < 0 THEN
               GnDone(l, IF r.ret = ENOENT /\ l.part > 0 THEN EIO ELSE r.ret)
           ELSE IF key[4] # l.part THEN GnDone(l1, EIO)
           ELSE IF l.part = 0 /\ r.ret < HdrSize THEN GnDone(l1, EIO)
           ELSE IF l.part = 0
                   /\ (\/ (xat_name_len(xat) <= Len(name)
                           /\ r.ret < HdrSize + xat_name_len(xat))
                       \/ xat_name_len(xat) > MaxNameLen
                       \/ xat_val_len(xat) > MaxValLen)
                THEN GnDone(l1, EIO)
           ELSE IF l.part = 0 /\ Len(name) > 0
                   /\ key[2] # xattr_name_hash(name)
                THEN GnDone(l1, ENOENT)
           ELSE IF l.part = 0 /\ Len(name) > 0
                   /\ ~xattr_names_equal(name, Len(name), xat_name(xat),
                                        xat_name_len(xat))
                THEN [l1 EXCEPT !.part = 0, !.id = key[3] + 1, !.xat = <<>>]
           ELSE LET lp    == IF l.part = 0 /\ Len(name) > 0
                             THEN xattr_nr_parts(xat) - 1 ELSE l.last_part
                    total == l.total + r.ret
                IN  IF total = bytes \/ l.part = lp
                    THEN GnDone([l1 EXCEPT !.last_part = lp,
                                           !.total = total], total)
                    ELSE [l1 EXCEPT !.last_part = lp, !.total = total,
                                    !.part = l.part + 1] :
       r \in {scoutfs_item_next(items, <<ino, l.hash, l.id, l.part>>,
                                bytes - l.total)}} : TRUE

RECURSIVE get_next_loop(_, _, _, _, _)
get_next_loop(items, ino, bytes, name, l) ==
    IF l.done THEN l
    ELSE get_next_loop(items, ino, bytes, name,
                       get_next_iter(items, ino, bytes, name, l))

\* [ret, key, xat]: the bytes copied or an error, the key of the last item
\* read and the caller's buffer
get_next_xattr(items, ino, bytes, name, name_hash, id) ==
    IF Len(name) > 0 /\ bytes < HdrSize + Len(name)
    THEN [ret |-> EINVAL, key |-> <<>>, xat |-> <<>>]
    ELSE CHOOSE res \in
           {[ret |-> l.ret, key |-> l.key, xat |-> l.xat] :
            l \in {get_next_loop(items, ino, bytes, name,
                                 get_next_init(name, name_hash, id))}} : TRUE

\* ------------------------------------------------------------------------
\* create_xattr_items, delete_xattr_items, change_xattr_items
\* ------------------------------------------------------------------------

\* while (key.skx_part-- > 0) scoutfs_item_delete(sb, &key, lock);
\* a create that leaves the parts it wrote
create_no_unwind(w, key, part, fail) == w

RECURSIVE create_unwind(_, _, _, _)
create_unwind(w, key, part, fail) ==
    IF part > 0
    THEN create_unwind(scoutfs_item_delete(w, KeyPart(key, part - 1), fail).w,
                       key, part - 1, fail)
    ELSE w

\* while (total < bytes) of create_xattr_items
RECURSIVE create_loop(_, _, _, _, _, _, _)
create_loop(w, key, xat, bytes, total, part, fail) ==
    IF ~(total < bytes) THEN [ret |-> 0, w |-> w]
    ELSE LET part_bytes == Min(bytes - total, PartSize)
             Created(r) ==
                 IF r.ret # 0
                 THEN [ret |-> r.ret, w |-> create_unwind(r.w, key, part, fail)]
                 ELSE create_loop(r.w, key, xat, bytes, total + part_bytes,
                                  part + 1, fail)
         IN  Created(scoutfs_item_create(w, KeyPart(key, part),
                                         Slice(xat, total, part_bytes), fail))

create_xattr_items(w, ino, id, xat, bytes, fail) ==
    create_loop(w, init_xattr_key(ino, xattr_name_hash(xat_name(xat)), id),
                xat, bytes, 0, 0, fail)

\* for (i = 1; i < nr_parts; i++) scoutfs_item_dirty
RECURSIVE dirty_loop(_, _, _, _, _)
dirty_loop(w, key, i, nr_parts, fail) ==
    IF ~(i < nr_parts) THEN [ret |-> 0, w |-> w]
    ELSE LET Dirtied(r) == IF r.ret # 0 THEN r
                            ELSE dirty_loop(r.w, key, i + 1, nr_parts, fail)
         IN  Dirtied(scoutfs_item_dirty(w, KeyPart(key, i), fail))

\* a delete that takes the parts from the last to the first
RECURSIVE delete_loop_descending(_, _, _, _, _)
delete_loop_descending(w, key, i, nr_parts, fail) ==
    IF ~(i < nr_parts) THEN [ret |-> 0, w |-> w]
    ELSE LET Deleted(r) ==
                 IF r.ret # 0 THEN r
                 ELSE delete_loop_descending(r.w, key, i + 1, nr_parts, fail)
         IN  Deleted(scoutfs_item_delete(w, KeyPart(key, nr_parts - 1 - i), fail))

\* for (i = 0; i < nr_parts; i++) scoutfs_item_delete, break on an error
RECURSIVE delete_loop(_, _, _, _, _)
delete_loop(w, key, i, nr_parts, fail) ==
    IF ~(i < nr_parts) THEN [ret |-> 0, w |-> w]
    ELSE LET Deleted(r) == IF r.ret # 0 THEN r
                            ELSE delete_loop(r.w, key, i + 1, nr_parts, fail)
         IN  Deleted(scoutfs_item_delete(w, KeyPart(key, i), fail))

delete_xattr_items(w, ino, name_hash, id, nr_parts, fail) ==
    LET key == init_xattr_key(ino, name_hash, id)
        Dirtied(d) == IF d.ret # 0 THEN d
                      ELSE delete_loop(d.w, key, 0, nr_parts, fail)
    IN  Dirtied(dirty_loop(w, key, 1, nr_parts, fail))

\* a part that leaves its last byte out when it is full
PartOf_short(new_xat, new_bytes, i) ==
    Slice(new_xat, i * PartSize, Min(new_bytes - i * PartSize, PartSize - 1))

\* the bytes of part i of a new attribute of new_bytes bytes
PartOf(new_xat, new_bytes, i) ==
    Slice(new_xat, i * PartSize, Min(new_bytes - i * PartSize, PartSize))

\* for (i = old_parts; i < new_parts; i++) scoutfs_item_create; last is
\* last_created
RECURSIVE change_create_loop(_, _, _, _, _, _, _, _)
change_create_loop(w, key, new_xat, new_bytes, i, new_parts, last, fail) ==
    IF ~(i < new_parts) THEN [ret |-> 0, w |-> w, last |-> last]
    ELSE LET Created(r) ==
                 IF r.ret # 0 THEN [ret |-> r.ret, w |-> r.w, last |-> last]
                 ELSE change_create_loop(r.w, key, new_xat, new_bytes, i + 1,
                                         new_parts, i, fail)
         IN  Created(scoutfs_item_create(w, KeyPart(key, i),
                                         PartOf(new_xat, new_bytes, i), fail))

\* a change that overwrites the overlapping parts from part 0 up
RECURSIVE change_update_loop_ascending(_, _, _, _, _, _)
change_update_loop_ascending(w, key, new_xat, new_bytes, i, fail) ==
    IF ~(i >= 0) THEN [ret |-> 0, w |-> w]
    ELSE CHOOSE res \in
           {IF r.ret < 0 THEN r
            ELSE scoutfs_item_update(r.w, KeyPart(key, i),
                                     PartOf(new_xat, new_bytes, i), fail) :
            r \in {change_update_loop_ascending(w, key, new_xat, new_bytes,
                                                i - 1, fail)}} : TRUE

\* for (i = min(old_parts, new_parts) - 1; i >= 0; i--) scoutfs_item_update
RECURSIVE change_update_loop(_, _, _, _, _, _)
change_update_loop(w, key, new_xat, new_bytes, i, fail) ==
    IF ~(i >= 0) THEN [ret |-> 0, w |-> w]
    ELSE LET Updated(r) ==
                 IF r.ret < 0 THEN r
                 ELSE change_update_loop(r.w, key, new_xat, new_bytes, i - 1, fail)
         IN  Updated(scoutfs_item_update(w, KeyPart(key, i),
                                         PartOf(new_xat, new_bytes, i), fail))

\* a change that keeps the parts it has no use for
change_no_delete_loop(w, key, i, to, fail) == w

\* for (i = from; i < to; i++) scoutfs_item_delete, results ignored
RECURSIVE change_delete_loop(_, _, _, _, _)
change_delete_loop(w, key, i, to, fail) ==
    IF ~(i < to) THEN w
    ELSE change_delete_loop(scoutfs_item_delete(w, KeyPart(key, i), fail).w,
                            key, i + 1, to, fail)

\* a change that returns its error without unwinding
change_out_no_unwind(w, key, ret, old_parts, last_created, fail) ==
    [ret |-> ret, w |-> w]

\* a change that unwinds from part 0
change_out_from_zero(w, key, ret, old_parts, last_created, fail) ==
    [ret |-> ret,
     w |-> IF ret < 0
           THEN change_delete_loop(w, key, 0, last_created + 1, fail)
           ELSE w]

\* out: of change_xattr_items: delete any newly created items
change_out(w, key, ret, old_parts, last_created, fail) ==
    [ret |-> ret,
     w |-> IF ret < 0
           THEN change_delete_loop(w, key, old_parts, last_created + 1, fail)
           ELSE w]

change_xattr_items(w, ino, id, new_xat, new_bytes, new_parts, old_parts, fail) ==
    LET key == init_xattr_key(ino, xattr_name_hash(xat_name(new_xat)), id)
    IN  CHOOSE res \in
          {IF d.ret # 0 THEN change_out(d.w, key, d.ret, old_parts, -1, fail)
           ELSE CHOOSE res \in
             {IF c.ret # 0
              THEN change_out(c.w, key, c.ret, old_parts, c.last, fail)
              ELSE CHOOSE res \in
                {IF u.ret < 0
                 THEN change_out(u.w, key, u.ret, old_parts, c.last, fail)
                 ELSE change_out(change_delete_loop(u.w, key, new_parts,
                                                    old_parts, fail),
                                 key, 0, old_parts, c.last, fail) :
                 u \in {change_update_loop(c.w, key, new_xat, new_bytes,
                                           Min(old_parts, new_parts) - 1,
                                           fail)}} : TRUE :
              c \in {change_create_loop(d.w, key, new_xat, new_bytes,
                                        old_parts, new_parts, -1, fail)}} : TRUE :
           d \in {dirty_loop(w, key, 0, old_parts, fail)}} : TRUE

\* ------------------------------------------------------------------------
\* The write-once name and timestamp
\* ------------------------------------------------------------------------

\* strrchr(name, '.'): the 0-based offset of the last byte that ends in
\* '.', -1 when there is none
LastDot(name) ==
    LET at == {i \in 1..Len(name) : IsDot(name[i])}
    IN  IF at = {} THEN -1 ELSE (CHOOSE i \in at : \A j \in at : j <= i) - 1

parse_worm_name(name) ==
    IF LastDot(name) < 0 THEN EINVAL
    ELSE IF Slice(name, LastDot(name) + 1, Len(name)) = <<"v1_expiration">>
         THEN 0 ELSE EINVAL

\* strnchr(s, len, '.'): the 0-based offset of the first '.', -1 when none
FirstDot(s) ==
    LET at == {i \in 1..Len(s) : IsDot(s[i])}
    IN  IF at = {} THEN -1 ELSE (CHOOSE i \in at : \A j \in at : i <= j) - 1

\* NSEC_PER_SEC and U32_MAX and S64_MAX are beyond the scaled u64: every
\* value parse_totl_u64 accepts is below them
parse_worm_timespec(value) ==
    LET delim    == FirstDot(value)
        sec_len  == delim
        nsec_len == Len(value) - (sec_len + 1)
        Parsed(sec, nsec) ==
            IF sec.ret < 0 THEN [ret |-> sec.ret, ts |-> <<0, 0>>]
            ELSE IF nsec.ret < 0 THEN [ret |-> nsec.ret, ts |-> <<0, 0>>]
            ELSE [ret |-> 0, ts |-> <<sec.val, nsec.val>>]
    IN  IF Len(value) < 3 THEN [ret |-> EINVAL, ts |-> <<0, 0>>]
        ELSE IF delim < 0 THEN [ret |-> EINVAL, ts |-> <<0, 0>>]
        ELSE IF delim = 0 \/ delim = Len(value) - 1
             THEN [ret |-> EINVAL, ts |-> <<0, 0>>]
        ELSE IF FirstDot(Slice(value, delim + 1, nsec_len)) >= 0
             THEN [ret |-> EINVAL, ts |-> <<0, 0>>]
        ELSE Parsed(parse_totl_u64(Slice(value, 0, sec_len)),
                    parse_totl_u64(Slice(value, delim + 1, nsec_len)))

\* ------------------------------------------------------------------------
\* scoutfs_xattr_set
\* ------------------------------------------------------------------------

\* the caller and the inode as the code asks about them: capable(
\* CAP_SYS_ADMIN), S_ISREG(inode->i_mode), scoutfs_inode_worm_denied(inode)
Env(capable, isreg, worm_denied) ==
    [capable |-> capable, isreg |-> isreg, worm_denied |-> worm_denied]

\* sbi->fmt_vers
FmtVers == 2

\* release: and what follows it
\* a release that forgets to take the delta back
set_release_keeps_delta(w, c, ret, undo_srch, undo_totl, hash, id, tval) ==
    LET w1 == IF ret < 0 /\ undo_srch
              THEN scoutfs_forest_srch_add(w, hash, c.ino, id, NoFail).w
              ELSE w
    IN  [ret |-> ret, w |-> Log(w1, "release_trans", <<>>, <<>>, 0)]

\* a release that leaves the transaction before it takes back the
\* registration and the delta
set_release_first(w, c, ret, undo_srch, undo_totl, hash, id, tval) ==
    [ret |-> ret,
     w |-> CHOOSE res \in
             {IF ret < 0 /\ undo_totl
              THEN apply_totl_delta(w1, c.totl_key,
                                    [total |-> U64Neg(tval.total),
                                     count |-> U64Neg(tval.count)],
                                    NoFail).w
              ELSE w1 :
              w1 \in {IF ret < 0 /\ undo_srch
                      THEN scoutfs_forest_srch_add(
                             Log(w, "release_trans", <<>>, <<>>, 0), hash,
                             c.ino, id, NoFail).w
                      ELSE Log(w, "release_trans", <<>>, <<>>, 0)}} : TRUE]

\* a release that forgets to register a second time
set_release_keeps_srch(w, c, ret, undo_srch, undo_totl, hash, id, tval) ==
    [ret |-> ret,
     w |-> CHOOSE res \in
             {Log(w1, "release_trans", <<>>, <<>>, 0) :
              w1 \in {IF ret < 0 /\ undo_totl
                      THEN apply_totl_delta(w, c.totl_key,
                                            [total |-> U64Neg(tval.total),
                                             count |-> U64Neg(tval.count)],
                                            NoFail).w
                      ELSE w}} : TRUE]

\* a release that updates the inode whatever the result
set_release_updates_inode(w, c, ret, undo_srch, undo_totl, hash, id, tval) ==
    [ret |-> ret,
     w |-> CHOOSE res \in
             {Log(IF ret < 0 THEN Log(w2, "update_inode", <<>>, <<>>, 0) ELSE w2,
                  "release_trans", <<>>, <<>>, 0) :
              w2 \in {IF ret < 0 /\ undo_totl
                      THEN apply_totl_delta(
                             IF undo_srch
                             THEN scoutfs_forest_srch_add(w, hash, c.ino, id,
                                                          NoFail).w
                             ELSE w,
                             c.totl_key,
                             [total |-> U64Neg(tval.total),
                              count |-> U64Neg(tval.count)], NoFail).w
                      ELSE IF ret < 0 /\ undo_srch
                      THEN scoutfs_forest_srch_add(w, hash, c.ino, id,
                                                   NoFail).w
                      ELSE w}} : TRUE]

set_release(w, c, ret, undo_srch, undo_totl, hash, id, tval) ==
    [ret |-> ret,
     w |-> CHOOSE res \in
             {Log(IF ret < 0 /\ undo_totl
                  THEN apply_totl_delta(w1, c.totl_key,
                                        [total |-> U64Neg(tval.total),
                                         count |-> U64Neg(tval.count)],
                                        NoFail).w
                  ELSE w1,
                  "release_trans", <<>>, <<>>, 0) :
              w1 \in {IF ret < 0 /\ undo_srch
                      THEN scoutfs_forest_srch_add(w, hash, c.ino, id,
                                                   NoFail).w
                      ELSE w}} : TRUE]

\* from retry: to release:, the part inside the transaction
set_trans(w, c, key, xat, bytes, found_parts, id0, tval) ==
    LET fail   == c.fail
        hasval == c.value # NULL
        wr     == IF Hits(fail, "hold_retry", <<>>)
                  THEN Log(w, "hold_trans", <<>>, <<>>, 1) ELSE w
        hret   == IF Hits(fail, "hold_trans", <<>>) THEN ENOMEM ELSE 0
        wh     == Log(wr, "hold_trans", <<>>, <<>>, hret)
        dret   == IF Hits(fail, "dirty_inode", <<>>) THEN ENOMEM ELSE 0
        wd     == Log(wh, "dirty_inode", <<>>, <<>>, dret)
        dosrch == c.tgs.srch = 1 /\ ~(found_parts > 0 /\ hasval)
        id     == IF dosrch /\ found_parts > 0 THEN key[3] ELSE id0
        hash   == IF dosrch THEN scoutfs_hash64(c.name) ELSE 0
        \* goto release with ret, undo_srch and undo_totl as they stand
        Goto(w1, ret, undo_srch, undo_totl) ==
            [w |-> w1, ret |-> ret, undo_srch |-> undo_srch,
             undo_totl |-> undo_totl]
    IN  IF hret # 0 THEN [ret |-> hret, w |-> wh]
        ELSE CHOOSE res \in
          {set_release(o.w, c, o.ret, o.undo_srch, o.undo_totl, hash, id, tval) :
           o \in
             {IF dret < 0 THEN Goto(wd, dret, FALSE, FALSE)
              ELSE CHOOSE res \in
                {IF s.ret < 0 THEN Goto(s.w, s.ret, FALSE, FALSE)
                 ELSE CHOOSE res \in
                   {IF t.ret < 0 THEN Goto(t.w, t.ret, dosrch, FALSE)
                    ELSE CHOOSE res \in
                      {IF m.ret < 0
                       THEN Goto(m.w, m.ret, dosrch, c.tgs.totl = 1)
                       ELSE Goto(Log(IF c.tgs.worm = 1
                                     THEN Log(m.w, "set_worm", <<>>,
                                              <<c.worm_bits, c.ts>>, 0)
                                     ELSE m.w,
                                     "update_inode", <<>>, <<>>, 0),
                                 0, dosrch, c.tgs.totl = 1) :
                       m \in
                         {IF found_parts > 0 /\ hasval
                          THEN change_xattr_items(t.w, c.ino, id, xat, bytes,
                                                  xattr_nr_parts(xat),
                                                  found_parts, fail)
                          ELSE IF found_parts > 0
                          THEN delete_xattr_items(t.w, c.ino, key[2], key[3],
                                                  found_parts, fail)
                          ELSE create_xattr_items(t.w, c.ino, id, xat, bytes,
                                                  fail)}} : TRUE :
                    t \in {IF c.tgs.totl = 1
                           THEN apply_totl_delta(s.w, c.totl_key, tval, fail)
                           ELSE [ret |-> 0, w |-> s.w]}} : TRUE :
                 s \in {IF dosrch
                        THEN scoutfs_forest_srch_add(wd, hash, c.ino, id, fail)
                        ELSE [ret |-> 0, w |-> wd]}} : TRUE}} : TRUE

\* an unlock that leaves the totl lock to a set that succeeded
set_unlock_on_success(r, totl_locked, next_id) ==
    LET w1 == Log(r.w, "up_write", <<>>, <<>>, 0)
        w2 == Log(w1, "unlock_inode", <<>>, <<>>, 0)
        w3 == IF totl_locked /\ r.ret = 0
              THEN Log(w2, "unlock_totl", <<>>, <<>>, 0) ELSE w2
    IN  [ret |-> r.ret, w |-> w3, next_id |-> next_id]

\* an unlock that takes the id back from a set that failed
set_unlock_takes_id_back(r, totl_locked, next_id) ==
    LET w1 == Log(r.w, "up_write", <<>>, <<>>, 0)
        w2 == Log(w1, "unlock_inode", <<>>, <<>>, 0)
        w3 == IF totl_locked THEN Log(w2, "unlock_totl", <<>>, <<>>, 0) ELSE w2
    IN  [ret |-> r.ret, w |-> w3,
         next_id |-> IF r.ret < 0 /\ next_id > 0 THEN next_id - 1 ELSE next_id]

\* unlock: up_write, the inode lock and the totl lock when it was taken
set_unlock(r, totl_locked, next_id) ==
    LET w1 == Log(r.w, "up_write", <<>>, <<>>, 0)
        w2 == Log(w1, "unlock_inode", <<>>, <<>>, 0)
        w3 == IF totl_locked THEN Log(w2, "unlock_totl", <<>>, <<>>, 0) ELSE w2
    IN  [ret |-> r.ret, w |-> w3, next_id |-> next_id]

\* "check existence constraint flags" and "not an error to delete
\* something that doesn't exist" on the result ret of the lookup: whether
\* the call stops here, and with what
\* an existence check that lets a create-only set through to an existing
\* record
check_existence_no_create(ret, flags, hasval) ==
    IF ret = ENOENT /\ XATTR_REPLACE \in flags THEN [stop |-> TRUE, ret |-> ENODATA]
    ELSE IF ret = ENOENT /\ ~hasval THEN [stop |-> TRUE, ret |-> 0]
    ELSE [stop |-> FALSE, ret |-> ret]

\* an existence check that reports the delete of a missing record
check_existence_no_noop(ret, flags, hasval) ==
    IF ret = ENOENT /\ XATTR_REPLACE \in flags THEN [stop |-> TRUE, ret |-> ENODATA]
    ELSE IF ret >= 0 /\ XATTR_CREATE \in flags THEN [stop |-> TRUE, ret |-> EEXIST]
    ELSE IF ret = ENOENT /\ ~hasval THEN [stop |-> TRUE, ret |-> ENODATA]
    ELSE [stop |-> FALSE, ret |-> ret]

check_existence(ret, flags, hasval) ==
    IF ret = ENOENT /\ XATTR_REPLACE \in flags THEN [stop |-> TRUE, ret |-> ENODATA]
    ELSE IF ret >= 0 /\ XATTR_CREATE \in flags THEN [stop |-> TRUE, ret |-> EEXIST]
    ELSE IF ret = ENOENT /\ ~hasval THEN [stop |-> TRUE, ret |-> 0]
    ELSE [stop |-> FALSE, ret |-> ret]

\* a set that does not ask the inode for its write-once barrier
set_denied_never(env) == 0

\* "if (scoutfs_inode_worm_denied(inode))": the error that stops the set
\* while the barrier of the inode is active, or 0
set_denied(env) == IF env.worm_denied THEN EACCES ELSE 0

\* from down_write to unlock:; next_id is si->next_xattr_id
set_locked(w, c, next_id) ==
    LET hasval   == c.value # NULL
        name_len == Len(c.name)
        lret     == IF c.tgs.totl = 1 /\ Hits(c.fail, "lock_totl", <<>>)
                    THEN ENOMEM ELSE 0
        wl       == IF c.tgs.totl = 1
                    THEN Log(w, "lock_totl", <<>>, <<>>, lret) ELSE w
    IN  CHOOSE res \in
      {LET found_parts == IF g.ret >= 0 THEN xattr_nr_parts(g.xat) ELSE 0
           count   == U64Add(IF hasval THEN 1 ELSE 0,
                             U64Neg(IF g.ret # ENOENT THEN 1 ELSE 0))
           val_len == g.ret - (HdrSize + xat_name_len(g.xat))
           id      == IF ~hasval THEN 0
                      ELSE IF found_parts > 0 THEN g.key[3] ELSE next_id
           nid     == IF hasval /\ found_parts = 0
                      THEN next_id + 1 ELSE next_id
           xat     == IF hasval THEN xattr_bytes(c.name, c.value) ELSE g.xat
           ex      == check_existence(g.ret, c.flags, hasval)
       IN  IF ~c.env.isreg /\ c.tgs.worm = 1
           THEN set_unlock([ret |-> EINVAL, w |-> w], FALSE, next_id)
           ELSE IF g.ret < 0 /\ g.ret # ENOENT
           THEN set_unlock([ret |-> g.ret, w |-> w], FALSE, next_id)
           ELSE IF ex.stop
           THEN set_unlock([ret |-> ex.ret, w |-> w], FALSE, next_id)
           ELSE IF set_denied(c.env) # 0
           THEN set_unlock([ret |-> set_denied(c.env), w |-> w], FALSE,
                           next_id)
           ELSE CHOOSE res \in
             {IF old.ret < 0
              THEN set_unlock([ret |-> old.ret, w |-> w], FALSE, next_id)
              ELSE IF new.ret < 0
              THEN set_unlock([ret |-> new.ret, w |-> w], FALSE, nid)
              ELSE IF lret # 0
              THEN set_unlock([ret |-> lret, w |-> wl], FALSE, nid)
              ELSE set_unlock(
                     set_trans(wl, c, g.key, xat, c.bytes, found_parts, id,
                               IF c.tgs.totl = 1
                               THEN [total |-> U64Add(U64Neg(old.val), new.val),
                                     count |-> count]
                               ELSE ZeroTval),
                     c.tgs.totl = 1, nid) :
              old \in {IF found_parts > 0 /\ c.tgs.totl = 1
                       THEN parse_totl_u64(
                              Slice(g.xat, HdrSize + xat_name_len(g.xat),
                                    val_len))
                       ELSE [ret |-> 0, val |-> 0]},
              new \in {IF hasval /\ c.tgs.totl = 1
                       THEN parse_totl_u64(c.value)
                       ELSE [ret |-> 0, val |-> 0]}} : TRUE :
       g \in {get_next_xattr(w.items, c.ino, HdrSize + name_len + MaxTotlU64,
                             c.name, 0, 0)}} : TRUE

\* scoutfs_xattr_set(dentry, name, value, size, flags) on the inode ino,
\* from the state st = [items, totl, srch, next_id]
scoutfs_xattr_set(st, ino, name, value, size, flags, env, fail) ==
    LET w0   == World(st.items, st.totl, st.srch)
        out(ret) == [ret |-> ret, w |-> w0, next_id |-> st.next_id[ino]]
        hasval == value # NULL
        w1   == Log(Log(w0, "lock_inode", <<>>, <<>>, 0),
                    "down_write", <<>>, <<>>, 0)
    IN  IF Len(name) > MaxNameLen THEN out(ERANGE)
        ELSE IF hasval /\ size > MaxValLen THEN out(E2BIG)
        ELSE IF (XATTR_CREATE \in flags /\ XATTR_REPLACE \in flags)
                \/ flags \ {XATTR_CREATE, XATTR_REPLACE} # {}
             THEN out(EINVAL)
        ELSE IF unknown_prefix(name) THEN out(EOPNOTSUPP)
        ELSE CHOOSE res \in
          {IF p.ret # 0 THEN out(EINVAL)
           ELSE IF (p.tgs.hide = 1 \/ p.tgs.srch = 1 \/ p.tgs.totl = 1
                    \/ p.tgs.worm = 1)
                   /\ ~env.capable
                THEN out(EPERM)
           ELSE IF p.tgs.worm = 1 /\ p.tgs.hide # 1 THEN out(EINVAL)
           ELSE CHOOSE res \in
             {IF tk.ret # 0 THEN out(tk.ret)
              ELSE IF wn # 0 THEN out(EINVAL)
              ELSE IF wt.ret < 0 THEN out(wt.ret)
              ELSE set_locked(w1,
                              [ino |-> ino, name |-> name, value |-> value,
                               flags |-> flags, tgs |-> p.tgs,
                               totl_key |-> tk.key, ts |-> wt.ts,
                               worm_bits |-> IF p.tgs.worm = 1 /\ hasval
                                             THEN 1 ELSE 0,
                               bytes |-> HdrSize + Len(name) + size,
                               env |-> env, fail |-> fail],
                              st.next_id[ino]) :
              tk \in {IF p.tgs.totl = 1 THEN parse_totl_key(name)
                      ELSE [ret |-> 0, key |-> <<>>]},
              wn \in {IF p.tgs.worm = 1 THEN parse_worm_name(name) ELSE 0},
              wt \in {IF p.tgs.worm = 1 /\ hasval
                      THEN parse_worm_timespec(value)
                      ELSE [ret |-> 0, ts |-> <<0, 0>>]}} : TRUE :
           p \in {scoutfs_xattr_parse_tags(name, FmtVers)}} : TRUE

\* scoutfs_setxattr: a size of 0 sets the empty value
scoutfs_setxattr(st, ino, name, value, size, flags, env, fail) ==
    scoutfs_xattr_set(st, ino, name, IF size = 0 THEN <<>> ELSE value, size,
                      flags, env, fail)

scoutfs_removexattr(st, ino, name, env, fail) ==
    scoutfs_xattr_set(st, ino, name, NULL, 0, {XATTR_REPLACE}, env, fail)

\* ------------------------------------------------------------------------
\* scoutfs_getxattr
\* ------------------------------------------------------------------------

\* what scoutfs_getxattr makes of the result g of get_next_xattr: [ret,
\* buffer]
\* a result that copies the bytes after the header
getxattr_result_name(g, size) ==
    IF g.ret < 0
    THEN [ret |-> IF g.ret = ENOENT THEN ENODATA ELSE g.ret, buffer |-> <<>>]
    ELSE IF size = 0 THEN [ret |-> xat_val_len(g.xat), buffer |-> <<>>]
    ELSE IF size < xat_val_len(g.xat) THEN [ret |-> ERANGE, buffer |-> <<>>]
    ELSE IF g.ret < xattr_full_bytes(g.xat) THEN [ret |-> EIO, buffer |-> <<>>]
    ELSE [ret |-> xat_val_len(g.xat),
          buffer |-> Slice(g.xat, HdrSize, xat_val_len(g.xat))]

getxattr_result(g, size) ==
    IF g.ret < 0
    THEN [ret |-> IF g.ret = ENOENT THEN ENODATA ELSE g.ret, buffer |-> <<>>]
    ELSE IF size = 0 THEN [ret |-> xat_val_len(g.xat), buffer |-> <<>>]
    ELSE IF size < xat_val_len(g.xat) THEN [ret |-> ERANGE, buffer |-> <<>>]
    ELSE IF g.ret < xattr_full_bytes(g.xat) THEN [ret |-> EIO, buffer |-> <<>>]
    ELSE [ret |-> xat_val_len(g.xat), buffer |-> xat_value(g.xat)]

\* a getxattr that takes a lookup that ran out of parts for one that
\* found no attribute
scoutfs_getxattr_ran_out(items, ino, name, size) ==
    IF unknown_prefix(name) THEN [ret |-> EOPNOTSUPP, buffer |-> <<>>]
    ELSE IF Len(name) > MaxNameLen THEN [ret |-> ENODATA, buffer |-> <<>>]
    ELSE CHOOSE res \in
           {getxattr_result([g EXCEPT !.ret = IF @ = EIO THEN ENOENT ELSE @],
                            size) :
            g \in {get_next_xattr(items, ino, HdrSize + Len(name) + size,
                                  name, 0, 0)}} : TRUE

scoutfs_getxattr(items, ino, name, size) ==
    IF unknown_prefix(name) THEN [ret |-> EOPNOTSUPP, buffer |-> <<>>]
    ELSE IF Len(name) > MaxNameLen THEN [ret |-> ENODATA, buffer |-> <<>>]
    ELSE getxattr_result(get_next_xattr(items, ino, HdrSize + Len(name) + size,
                                        name, 0, 0), size)

\* ------------------------------------------------------------------------
\* scoutfs_list_xattrs
\* ------------------------------------------------------------------------

\* the byte that ends a name in the buffer of a listing
NUL == "NUL"

\* the locals of scoutfs_list_xattrs before its loop
list_init(hash_pos, id_pos) ==
    [name_hash |-> hash_pos, id |-> id_pos, total |-> 0, buffer |-> <<>>,
     done |-> FALSE, ret |-> 0]

\* a pass that moves the cursor past the name that did not fit
list_iter_skips_unfit(its, ino, size, e_range, show_hidden, s) ==
    CHOOSE res \in
      {LET name == xat_name_buf(g.xat)
           p    == scoutfs_xattr_parse_tags(xat_name_buf(g.xat), FmtVers)
           is_hidden == p.ret = 0 /\ p.tgs.hide = 1
           emit == show_hidden = is_hidden
       IN  IF g.ret < 0
           THEN [s EXCEPT !.done = TRUE,
                          !.ret = IF g.ret = ENOENT THEN s.total ELSE g.ret]
           ELSE IF emit /\ size > 0 /\ s.total + Len(name) + 1 > size
           THEN [s EXCEPT !.done = TRUE,
                          !.ret = IF e_range THEN ERANGE ELSE s.total,
                          !.name_hash = g.key[2],
                          !.id = g.key[3] + 1]
           ELSE [s EXCEPT !.buffer = IF emit /\ size > 0
                                     THEN @ \o name \o <<NUL>> ELSE @,
                          !.total = IF emit THEN @ + Len(name) + 1 ELSE @,
                          !.name_hash = g.key[2],
                          !.id = g.key[3] + 1] :
       g \in {get_next_xattr(its, ino, HdrSize + MaxNameLen, <<>>,
                             s.name_hash, s.id)}} : TRUE

\* one pass of the loop of scoutfs_list_xattrs; without a name
\* get_next_xattr reads one item
list_iter(its, ino, size, e_range, show_hidden, s) ==
    CHOOSE res \in
      {LET name == xat_name_buf(g.xat)
           p    == scoutfs_xattr_parse_tags(xat_name_buf(g.xat), FmtVers)
           is_hidden == p.ret = 0 /\ p.tgs.hide = 1
           emit == show_hidden = is_hidden
       IN  IF g.ret < 0
           THEN [s EXCEPT !.done = TRUE,
                          !.ret = IF g.ret = ENOENT THEN s.total ELSE g.ret]
           ELSE IF emit /\ size > 0 /\ s.total + Len(name) + 1 > size
           THEN [s EXCEPT !.done = TRUE,
                          !.ret = IF e_range THEN ERANGE ELSE s.total]
           ELSE [s EXCEPT !.buffer = IF emit /\ size > 0
                                     THEN @ \o name \o <<NUL>> ELSE @,
                          !.total = IF emit THEN @ + Len(name) + 1 ELSE @,
                          !.name_hash = g.key[2],
                          !.id = g.key[3] + 1] :
       g \in {get_next_xattr(its, ino, HdrSize + MaxNameLen, <<>>,
                             s.name_hash, s.id)}} : TRUE

RECURSIVE list_loop(_, _, _, _, _, _)
list_loop(its, ino, size, e_range, show_hidden, s) ==
    IF s.done THEN s
    ELSE list_loop(its, ino, size, e_range, show_hidden,
                   list_iter(its, ino, size, e_range, show_hidden, s))

\* what scoutfs_list_xattrs returns from the locals s its loop ended with
list_result(s) ==
    [ret |-> s.ret, buffer |-> s.buffer, hash_pos |-> s.name_hash,
     id_pos |-> s.id]

scoutfs_list_xattrs(its, ino, size, hash_pos, id_pos, e_range, show_hidden) ==
    list_result(list_loop(its, ino, size, e_range, show_hidden,
                          list_init(hash_pos, id_pos)))

scoutfs_listxattr(its, ino, size) ==
    scoutfs_list_xattrs(its, ino, size, 0, 0, TRUE, FALSE)

\* ------------------------------------------------------------------------
\* scoutfs_xattr_drop
\* ------------------------------------------------------------------------

\* what follows the loop of scoutfs_xattr_drop
drop_end(w, ret, release, totl_locked) ==
    LET w1 == IF release THEN Log(w, "release_trans", <<>>, <<>>, 0) ELSE w
        w2 == IF totl_locked THEN Log(w1, "unlock_totl", <<>>, <<>>, 0) ELSE w1
    IN  [ret |-> ret, w |-> w2]

\* the loop of scoutfs_xattr_drop; the key is not advanced, the next pass
\* does not see the deleted item
RECURSIVE drop_loop(_, _, _, _)
drop_loop(w, ino, totl_locked, fail) ==
    CHOOSE res \in
      {LET key     == r.key
           xat     == r.val
           val_len == r.ret - (HdrSize + xat_name_len(r.val))
       IN  IF r.ret < 0
           THEN drop_end(w, IF r.ret = ENOENT THEN 0 ELSE r.ret, FALSE,
                         totl_locked)
           ELSE IF key[4] = 0 /\ (r.ret < HdrSize
                                  \/ r.ret < HdrSize + xat_name_len(xat))
           THEN drop_end(w, EIO, FALSE, totl_locked)
           ELSE CHOOSE res \in
             {LET tgs    == IF key[4] # 0 \/ p.ret # 0 THEN NoTags ELSE p.tgs
                  lock   == tgs.totl = 1 /\ ~totl_locked
                  lret   == IF lock /\ Hits(fail, "lock_totl", <<>>)
                            THEN ENOMEM ELSE 0
                  wl     == IF lock THEN Log(w, "lock_totl", <<>>, <<>>, lret)
                            ELSE w
                  locked == totl_locked \/ lock
                  hret   == IF Hits(fail, "hold_trans", key) THEN ENOMEM ELSE 0
                  wh     == Log(wl, "hold_trans", key, <<>>, hret)
              IN  IF tgs.totl = 1 /\ val_len # xat_val_len(xat)
                  THEN [ret |-> EIO, w |-> w]
                  ELSE IF tgs.totl = 1 /\ tk.ret # 0
                  THEN drop_end(w, tk.ret, FALSE, totl_locked)
                  ELSE IF tgs.totl = 1 /\ tv.ret # 0
                  THEN drop_end(w, tv.ret, FALSE, totl_locked)
                  ELSE IF lret < 0 THEN drop_end(wl, lret, FALSE, totl_locked)
                  ELSE IF hret < 0 THEN drop_end(wh, hret, FALSE, locked)
                  ELSE CHOOSE res \in
                    {IF d.ret < 0 THEN drop_end(d.w, d.ret, TRUE, locked)
                     ELSE CHOOSE res \in
                       {IF s.ret < 0 THEN drop_end(s.w, s.ret, TRUE, locked)
                        ELSE CHOOSE res \in
                          {IF t.ret < 0
                           THEN drop_end(t.w, t.ret, TRUE, locked)
                           ELSE drop_loop([Log(t.w, "release_trans", <<>>,
                                               <<>>, 0) EXCEPT !.dirty = {}],
                                          ino, locked, fail) :
                           t \in {IF tgs.totl = 1
                                  THEN apply_totl_delta(
                                         s.w, tk.key,
                                         [total |-> U64Neg(tv.val),
                                          count |-> U64Neg(1)], fail)
                                  ELSE [ret |-> 0, w |-> s.w]}} : TRUE :
                        s \in {IF tgs.srch = 1
                               THEN scoutfs_forest_srch_add(
                                      d.w, scoutfs_hash64(xat_name(xat)),
                                      ino, key[3], fail)
                               ELSE [ret |-> 0, w |-> d.w]}} : TRUE :
                     d \in {scoutfs_item_delete(wh, key, fail)}} : TRUE :
              p  \in {scoutfs_xattr_parse_tags(xat_name(xat), FmtVers)},
              tk \in {parse_totl_key(xat_name(xat))},
              tv \in {parse_totl_u64(Slice(xat, HdrSize + xat_name_len(xat),
                                           val_len))}} : TRUE :
       r \in {scoutfs_item_next(w.items, init_xattr_key(ino, 0, 0),
                                HdrSize + MaxNameLen + MaxTotlU64)}} : TRUE

\* a drop that goes from one record to the next and sees first parts only
scoutfs_xattr_drop_first_parts(st, ino, fail) ==
    CHOOSE res \in
      {[r EXCEPT !.w.items =
            [k \in DOMAIN r.w.items
                    \cup {q \in DOMAIN st.items : q[4] # 0} |-> st.items[k]]] :
       r \in {drop_loop(World([k \in {q \in DOMAIN st.items : q[4] = 0} |->
                                  st.items[k]],
                              st.totl, st.srch), ino, FALSE, fail)}} : TRUE

\* a drop that takes the total lock before it looks at an item
scoutfs_xattr_drop_locks_first(st, ino, fail) ==
    drop_loop(Log(World(st.items, st.totl, st.srch), "lock_totl", <<>>, <<>>, 0),
              ino, TRUE, fail)

\* scoutfs_xattr_drop(sb, ino, lock) from the state st
scoutfs_xattr_drop(st, ino, fail) ==
    drop_loop(World(st.items, st.totl, st.srch), ino, FALSE, fail)

\* ------------------------------------------------------------------------
\* State
\* ------------------------------------------------------------------------

VARIABLES
    items,          \* the attribute items: key -> bytes
    totl,           \* the totals: <<a, b, c>> -> [total, count]
    srch,           \* the search registrations in effect
    next_xattr_id,  \* si->next_xattr_id of each inode
    dead,           \* the inodes whose attributes were dropped
    last,           \* the call that returned last, until the caller took it
    writer,         \* a set or remove that holds xattr_rwsem for writing
    reader          \* a get that holds xattr_rwsem for reading

vars == <<items, totl, srch, next_xattr_id, dead, last, writer, reader>>

EmptyItems == [k \in {} |-> <<>>]
EmptyTotl == [k \in {} |-> ZeroTval]

State == [items |-> items, totl |-> totl, srch |-> srch, next_id |-> next_xattr_id]

NoCall ==
    [op |-> "none", ino |-> 0, name |-> <<>>, value |-> <<>>, flags |-> {},
     env |-> Env(TRUE, TRUE, FALSE), ret |-> 0, buffer |-> <<>>,
     trace |-> <<>>, pre |-> [items |-> EmptyItems, totl |-> EmptyTotl,
                              srch |-> {}, next_id |-> <<>>]]

Call(op, ino, name, value, flags, env, ret, buffer, trace, pre) ==
    [op |-> op, ino |-> ino, name |-> name, value |-> value, flags |-> flags,
     env |-> env, ret |-> ret, buffer |-> buffer, trace |-> trace,
     pre |-> pre]

Idle == [pc |-> "idle"]

\* the calls of a trace that the store or the transaction can fail
Fallible == {"lock_totl", "hold_trans", "dirty_inode", "srch", "delta",
             "create", "dirty", "update", "delete"}

\* the failures to inject into a call whose trace without a failure is
\* trace: none, a retry of the hold, or one failing call
FailPoints(trace) ==
    {NoFail}
    \cup {[call |-> "hold_retry", key |-> <<>>] :
            i \in {j \in 1..Len(trace) : trace[j].call = "hold_trans"}}
    \cup {[call |-> trace[i].call, key |-> trace[i].key] :
            i \in {j \in 1..Len(trace) : trace[j].call \in Fallible}}

Init ==
    /\ items = EmptyItems
    /\ totl = EmptyTotl
    /\ srch = {}
    /\ next_xattr_id = [i \in {1, 2} |-> 0]
    /\ dead = {}
    /\ last = NoCall
    /\ writer = Idle
    /\ reader = Idle

\* the state after a set, a remove or a drop returned r
Returned(r, ino, nid) ==
    /\ items' = r.w.items
    /\ totl' = r.w.totl
    /\ srch' = r.w.srch
    /\ next_xattr_id' = [next_xattr_id EXCEPT ![ino] = nid]

\* A universe U of requests: U.sets[ino] are the [name, value, flags] of
\* setxattr, U.removes[ino] the names of removexattr, U.gets[ino] the
\* [name, size] of getxattr, U.drops the inodes that can be deleted, U.envs
\* the callers, U.fails whether failures are injected into set and remove,
\* U.maxid the bound on the ids that the inodes hand out, U.lists[ino] the
\* buffer sizes of listings, U.lookups[ino] the names that are looked up,
\* U.setgets[ino] the [name, value] that are set and read back.

\* setxattr(2) on a live inode; a NULL value comes with a size of 1
SetXattr(U) ==
    /\ last.op = "none" /\ writer.pc = "idle" /\ reader.pc = "idle"
    /\ \E ino \in DOMAIN U.sets \ dead :
       \E q \in U.sets[ino], env \in U.envs :
        \E size \in {IF q.value = NULL THEN 1 ELSE Len(q.value)} :
        \E r0 \in {scoutfs_setxattr(State, ino, q.name, q.value, size,
                                    q.flags, env, NoFail)} :
            \E fail \in IF U.fails THEN FailPoints(r0.w.trace) ELSE {NoFail} :
                \E r \in {scoutfs_setxattr(State, ino, q.name, q.value, size,
                                          q.flags, env, fail)} :
                    /\ r.next_id + next_xattr_id[3 - ino] <= U.maxid
                    /\ Returned(r, ino, r.next_id)
                    /\ last' = Call("set", ino, q.name, q.value, q.flags, env,
                                    r.ret, <<>>, r.w.trace, State)
                    /\ UNCHANGED <<dead, writer, reader>>

\* removexattr(2) on a live inode
RemoveXattr(U) ==
    /\ last.op = "none" /\ writer.pc = "idle" /\ reader.pc = "idle"
    /\ \E ino \in DOMAIN U.removes \ dead :
       \E name \in U.removes[ino], env \in U.envs :
        \E r0 \in {scoutfs_removexattr(State, ino, name, env, NoFail)} :
            \E fail \in IF U.fails THEN FailPoints(r0.w.trace) ELSE {NoFail} :
                \E r \in {scoutfs_removexattr(State, ino, name, env, fail)} :
                    /\ Returned(r, ino, r.next_id)
                    /\ last' = Call("remove", ino, name, NULL, {XATTR_REPLACE},
                                    env, r.ret, <<>>, r.w.trace, State)
                    /\ UNCHANGED <<dead, writer, reader>>

\* getxattr(2) on a live inode into a buffer of size bytes
GetXattr(U) ==
    /\ last.op = "none" /\ writer.pc = "idle" /\ reader.pc = "idle"
    /\ \E ino \in DOMAIN U.gets \ dead :
       \E q \in U.gets[ino] :
        \E r \in {scoutfs_getxattr(items, ino, q.name, q.size)} :
            /\ last' = Call("get", ino, q.name, <<>>, {}, Env(TRUE, TRUE, FALSE),
                            r.ret, r.buffer, <<>>, State)
                        @@ [size |-> q.size]
            /\ UNCHANGED <<items, totl, srch, next_xattr_id, dead, writer, reader>>

\* the inode is deleted and its attributes are dropped; a drop that failed
\* is tried again
Drop(U) ==
    /\ last.op = "none" /\ writer.pc = "idle" /\ reader.pc = "idle"
    /\ \E ino \in {i \in U.drops : \E k \in DOMAIN items : k[1] = i} :
        \E r0 \in {scoutfs_xattr_drop(State, ino, NoFail)} :
            \E fail \in FailPoints(r0.w.trace) :
                \E r \in {scoutfs_xattr_drop(State, ino, fail)} :
                    /\ Returned(r, ino, next_xattr_id[ino])
                    /\ dead' = dead \cup {ino}
                    /\ last' = Call("drop", ino, <<>>, <<>>, {},
                                    Env(TRUE, TRUE, FALSE), r.ret, <<>>,
                                    r.w.trace, State)
                    /\ UNCHANGED <<writer, reader>>

\* the caller takes the result
Return ==
    /\ last.op # "none"
    /\ last' = NoCall
    /\ UNCHANGED <<items, totl, srch, next_xattr_id, dead, writer, reader>>

\* the requests of a universe: every name with every value and no flags,
\* and every name with the value v under each of the flag sets
Requests(names, values, v, flagsets) ==
    {[name |-> n, value |-> x, flags |-> {}] : n \in names, x \in values}
    \cup {[name |-> n, value |-> v, flags |-> f] : n \in names, f \in flagsets}

\* ------------------------------------------------------------------------
\* Totaled attributes on two inodes
\* ------------------------------------------------------------------------

NameT123 == <<"scoutfs.", "totl.", "1", ".", "2", ".", "3">>
NameST123 == <<"scoutfs.", "srch.", "totl.", "1", ".", "2", ".", "3">>
NameT124 == <<"scoutfs.", "totl.", "1", ".", "2", ".", "4">>

\* a name with the worm tag, which needs the hide tag before it
NameW == <<"scoutfs.", "hide.", "worm.", "v1_expiration">>

\* the ids that the two inodes hand out while totals are checked
MaxIdT == 3

AllFlags == {{XATTR_CREATE}, {XATTR_REPLACE}, {XATTR_CREATE, XATTR_REPLACE}}

UT == [sets |-> [i \in {1, 2} |->
                    IF i = 1
                    THEN Requests({NameT123, NameST123},
                                  {<<"8">>, <<"1", "2">>, <<"x">>, NULL},
                                  <<"8">>, AllFlags)
                    ELSE Requests({NameT123}, {<<"8">>, <<"1", "2">>, NULL},
                                  <<"8">>, {})
                         \cup Requests({NameT124}, {<<"8">>, NULL}, <<"8">>, {})
                         \cup Requests({NameW}, {<<"1", ".", "2">>}, <<>>, {})],
       removes |-> [i \in {1, 2} |-> IF i = 1 THEN {NameT123, NameST123}
                                     ELSE {NameT123, NameT124}],
       gets |-> [i \in {1} |-> {[name |-> NameT123, size |-> MaxTotlU64]}],
       envs |-> {Env(TRUE, TRUE, FALSE)},
       fails |-> TRUE,
       maxid |-> MaxIdT]

Next == SetXattr(UT) \/ RemoveXattr(UT) \/ GetXattr(UT) \/ Return

Spec == Init /\ [][Next]_vars

\* ------------------------------------------------------------------------
\* What the properties speak of
\* ------------------------------------------------------------------------

\* the keys of the part 0 items of the attributes of ino named name
RecordsOf(its, ino, name) ==
    {k \in DOMAIN its : k[1] = ino /\ k[4] = 0 /\ xat_name(its[k]) = name}

HasRecord(its, ino, name) == RecordsOf(its, ino, name) # {}

\* the elements of a sequence
Range(f) == {f[i] : i \in DOMAIN f}

\* the calls of a trace
Calls(trace) == {trace[i].call : i \in 1..Len(trace)}

\* the call left items, totals, registrations and ids as they were
NothingChanged ==
    /\ items = last.pre.items
    /\ totl = last.pre.totl
    /\ srch = last.pre.srch
    /\ next_xattr_id = last.pre.next_id

\* the part 0 items of the stored totaled attributes of the total tkey
TotlAttrs(its, tkey) ==
    {k \in DOMAIN its :
        /\ k[4] = 0
        /\ scoutfs_xattr_parse_tags(xat_name(its[k]), FmtVers).ret = 0
        /\ scoutfs_xattr_parse_tags(xat_name(its[k]), FmtVers).tgs.totl = 1
        /\ parse_totl_key(xat_name(its[k])).key = tkey}

\* the number a totaled attribute holds
TotlValue(xat) == parse_totl_u64(xat_value(xat)).val

RECURSIVE SumValues(_, _)
SumValues(its, S) ==
    IF S = {} THEN 0
    ELSE LET k == CHOOSE k \in S : TRUE
         IN  U64Add(TotlValue(its[k]), SumValues(its, S \ {k}))

\* what the total tkey has to be for the attributes stored in its
TotlOf(its, tkey) ==
    [total |-> SumValues(its, TotlAttrs(its, tkey)),
     count |-> Cardinality(TotlAttrs(its, tkey)) % U64Mod]

\* the total keys of the stored attributes and of the stored totals
TotlKeys(its, tot) ==
    DOMAIN tot \cup {parse_totl_key(xat_name(its[k])).key :
                        k \in {j \in DOMAIN its :
                                 /\ j[4] = 0
                                 /\ scoutfs_xattr_parse_tags(xat_name(its[j]),
                                                             FmtVers).tgs.totl = 1}}

RECURSIVE SumDeltas(_, _, _)
SumDeltas(trace, tkey, i) ==
    IF i > Len(trace) THEN ZeroTval
    ELSE LET e    == trace[i]
             rest == SumDeltas(trace, tkey, i + 1)
         IN  IF e.call = "delta" /\ e.key = tkey /\ e.ret = 0
             THEN [total |-> U64Add(e.arg.total, rest.total),
                   count |-> U64Add(e.arg.count, rest.count)]
             ELSE rest

\* the total of the deltas that a call applied to the total tkey
NetDelta(trace, tkey) == SumDeltas(trace, tkey, 1)

\* the number the attribute name of ino held before the last call
OldValue ==
    LET S == RecordsOf(last.pre.items, last.ino, last.name)
    IN  IF S = {} THEN 0 ELSE TotlValue(last.pre.items[CHOOSE k \in S : TRUE])

\* what a successful set or remove of a totaled attribute contributes
Contribution ==
    LET existed == HasRecord(last.pre.items, last.ino, last.name)
        new     == IF last.value = NULL THEN 0 ELSE parse_totl_u64(last.value).val
    IN  IF last.value = NULL /\ ~existed THEN ZeroTval
        ELSE IF last.value = NULL
             THEN [total |-> U64Neg(OldValue), count |-> U64Neg(1)]
        ELSE IF existed
             THEN [total |-> U64Add(new, U64Neg(OldValue)), count |-> 0]
        ELSE [total |-> new, count |-> 1]

\* ------------------------------------------------------------------------
\* Totals under set and remove
\* ------------------------------------------------------------------------

\* C1: whatever sets and removes of totaled attributes returned, with
\* success or with an error, every total is the sum modulo 2^64 of the
\* values of the stored totaled attributes of its key and counts them; a
\* call that succeeded contributed (+value, +1) as a create, (new - old, 0)
\* as a replace and (-old, -1) as a remove, a call that failed nothing.
TotalsConsistent ==
    /\ \A tkey \in TotlKeys(items, totl) :
            Bucket(totl, tkey) = TotlOf(items, tkey)
    /\ last.op \in {"set", "remove"} /\ "lock_totl" \in Calls(last.trace)
        => NetDelta(last.trace, parse_totl_key(last.name).key)
            = IF last.ret = 0 THEN Contribution ELSE ZeroTval

\* a set that applied its delta, failed at an item and took the delta back,
\* while the total of its key counts two attributes and has wrapped
TotalsConsistentWitness ==
    /\ last.op = "set" /\ last.ret = ENOMEM
    /\ \E i \in 1..Len(last.trace) :
            last.trace[i].call = "create" /\ last.trace[i].ret = ENOMEM
    /\ Cardinality({i \in 1..Len(last.trace) : last.trace[i].call = "delta"}) = 2
    /\ Bucket(totl, <<1, 2, 3>>) = [total |-> 4, count |-> 2]

\* ------------------------------------------------------------------------
\* Existence constraints
\* ------------------------------------------------------------------------

\* C9: a set with both create-only and replace-only is refused with EINVAL
\* before any lock is taken; a create-only set of a name that has a record
\* returns EEXIST and a replace-only set of a name that has none returns
\* ENODATA; none of them enters the transaction or changes an item, a
\* total or a registration.
ExistenceErrors ==
    LET locked  == "lock_inode" \in Calls(last.trace)
        existed == HasRecord(last.pre.items, last.ino, last.name)
        refused == "hold_trans" \notin Calls(last.trace) /\ NothingChanged
    IN  last.op = "set" =>
        /\ ({XATTR_CREATE, XATTR_REPLACE} \subseteq last.flags)
            => (last.ret = EINVAL /\ last.trace = <<>> /\ NothingChanged)
        /\ (last.flags = {XATTR_CREATE} /\ locked /\ existed)
            => (last.ret = EEXIST /\ refused)
        /\ (last.flags = {XATTR_REPLACE} /\ locked /\ ~existed)
            => (last.ret = ENODATA /\ refused)

\* a create-only set of a name that has a record returned EEXIST
ExistenceErrorsWitness ==
    /\ last.op = "set" /\ last.flags = {XATTR_CREATE}
    /\ HasRecord(last.pre.items, last.ino, last.name)
    /\ last.ret = EEXIST
    /\ Bucket(totl, <<1, 2, 3>>).count = 2

MaxIdD == 3

UD == [sets |-> [i \in {1, 2} |->
                    IF i = 1
                    THEN Requests({NameT123, NameST123},
                                  {<<"8">>, <<"1", "2">>}, <<"8">>, {})
                         \cup Requests({<<"user.", "a">>},
                                        {[j \in 1..14 |-> "p"]}, <<>>, {})
                    ELSE Requests({NameT123, NameT124}, {<<"8">>}, <<"8">>, {})],
       removes |-> [i \in {1} |-> {NameT123}],
       drops |-> {1, 2},
       envs |-> {Env(TRUE, TRUE, FALSE)},
       fails |-> TRUE,
       maxid |-> MaxIdD]

NextDrop == SetXattr(UD) \/ RemoveXattr(UD) \/ Drop(UD) \/ Return

SpecDrop == Init /\ [][NextDrop]_vars

\* the totaled attributes of the total tkey whose part 0 the last call
\* removed
RemovedTotl(tkey) == TotlAttrs(last.pre.items, tkey) \ DOMAIN items

\* C2: whenever drop returns, with success or with an error, every
\* totaled attribute whose part 0 it removed has had one delta
\* (-value, -1) applied to its total, so a total that was the sum and the
\* count of the stored attributes of its key before the drop is so after.
DropDeltas ==
    last.op = "drop" =>
        \A tkey \in TotlKeys(last.pre.items, last.pre.totl) :
            /\ NetDelta(last.trace, tkey)
                = [total |-> U64Neg(SumValues(last.pre.items, RemovedTotl(tkey))),
                   count |-> U64Neg(Cardinality(RemovedTotl(tkey)) % U64Mod)]
            /\ Bucket(last.pre.totl, tkey) = TotlOf(last.pre.items, tkey)
                => Bucket(totl, tkey) = TotlOf(items, tkey)

\* ------------------------------------------------------------------------
\* Attributes of one to four parts
\* ------------------------------------------------------------------------

\* two names of one hash
NameUa == <<"user.", "a">>
NameUd == <<"user.", "d">>

\* a value of len bytes c
Fill(len, c) == [i \in 1..len |-> c]

\* the lengths of values that make attributes of one, two, three and four
\* parts under these names
PartLens == {3, 14, 26, 38}

\* the ids that the inode hands out while parts are checked
MaxIdP == 2

\* the lengths of values that are set and read back under a name of two
\* bytes: none, a part that is not full, one, two and four full parts (the
\* longest value), and two parts of which the second is not full
RoundLens == {0, 3, PartSize - HdrSize - 2, 14, 2 * PartSize - HdrSize - 2,
              MaxValLen}

UP == [sets |-> [i \in {1} |->
                    Requests({NameUa}, {Fill(n, c) : n \in PartLens, c \in {"p", "q"}}
                                       \cup {NULL}, Fill(3, "p"), {})
                    \cup Requests({NameUd}, {Fill(3, "p"), Fill(14, "q")},
                                   Fill(3, "p"), {})],
       removes |-> [i \in {1} |-> {NameUa, NameUd}],
       gets |-> [i \in {1} |-> {[name |-> NameUa, size |-> MaxValLen],
                                [name |-> NameUd, size |-> 0]}],
       setgets |-> [i \in {1} |->
                    {[name |-> NameUa, value |-> Fill(n, "r")] :
                        n \in RoundLens}
                    \cup {[name |-> NameUd, value |-> Fill(n, "r")] :
                        n \in {0, PartSize - HdrSize - 2}}
                    \cup {[name |-> <<"user.", "a", "b", "c">>,
                           value |-> Fill(n, "r")] :
                        n \in {PartSize - HdrSize - 4,
                               2 * PartSize - HdrSize - 4 + 1}}],
       envs |-> {Env(TRUE, TRUE, FALSE)},
       fails |-> TRUE,
       maxid |-> MaxIdP]

\* setxattr(2) and then getxattr(2) of the same name into a buffer of the
\* length of the value, of a byte more, or of the greatest length
SetGet(U) ==
    /\ last.op = "none" /\ writer.pc = "idle" /\ reader.pc = "idle"
    /\ \E ino \in DOMAIN U.setgets \ dead :
       \E q \in U.setgets[ino], env \in U.envs :
        \E r0 \in {scoutfs_setxattr(State, ino, q.name, q.value, Len(q.value),
                                    {}, env, NoFail)} :
        \E fail \in IF U.fails THEN FailPoints(r0.w.trace) ELSE {NoFail} :
        \E r \in {scoutfs_setxattr(State, ino, q.name, q.value, Len(q.value),
                                   {}, env, fail)} :
        \E size \in {Len(q.value), Len(q.value) + 1, MaxValLen} :
        \E g \in {scoutfs_getxattr(r.w.items, ino, q.name, size)} :
            /\ r.next_id + next_xattr_id[3 - ino] <= U.maxid
            /\ Returned(r, ino, r.next_id)
            /\ last' = [op |-> "set_get", ino |-> ino, name |-> q.name,
                        value |-> q.value, flags |-> {}, env |-> env,
                        ret |-> r.ret, trace |-> r.w.trace, pre |-> State,
                        size |-> size, get_ret |-> g.ret,
                        buffer |-> g.buffer]
            /\ UNCHANGED <<dead, writer, reader>>

NextParts ==
    SetXattr(UP) \/ RemoveXattr(UP) \/ GetXattr(UP) \/ SetGet(UP) \/ Return

SpecParts == Init /\ [][NextParts]_vars

\* the keys in its of the group of key: its inode, hash and id
Group(its, key) ==
    {k \in DOMAIN its : k[1] = key[1] /\ k[2] = key[2] /\ k[3] = key[3]}

\* the calls call of a trace, in their order
CallsOf(trace, call) == SelectSeq(trace, LAMBDA e : e.call = call)

\* the key of part 0 of the attribute that the last call found
OldKey == CHOOSE k \in RecordsOf(last.pre.items, last.ino, last.name) : TRUE

\* the parts of the attribute that the last call found, and of the one it
\* was to store
OldParts == xattr_nr_parts(last.pre.items[OldKey])
NewParts == NrParts(Len(last.name), Len(last.value))

\* the last call is a set with a value of a name that had no record, that
\* got to write items
IsCreate ==
    /\ last.op = "set" /\ last.value # NULL
    /\ ~HasRecord(last.pre.items, last.ino, last.name)
    /\ CallsOf(last.trace, "create") # <<>>

\* the last call is a set with a value of a name that had a record, that
\* got to change_xattr_items
IsChange ==
    /\ last.op = "set" /\ last.value # NULL
    /\ HasRecord(last.pre.items, last.ino, last.name)
    /\ CallsOf(last.trace, "dirty") # <<>>

\* the last call is a set without a value or a remove of a name that had
\* a record, that got to delete_xattr_items
IsDelete ==
    /\ last.op \in {"set", "remove"} /\ last.value = NULL
    /\ HasRecord(last.pre.items, last.ino, last.name)
    /\ Calls(last.trace) \cap {"dirty", "delete"} # {}

\* C3: create writes the parts 0..N-1 in ascending order; when the write
\* of a part fails the parts before it are deleted and the error is
\* returned with no item left in the group; a create that succeeded and a
\* delete that succeeded after it leave no item in the group.
CreateUnwinds ==
    /\ IsCreate =>
        LET cr == CallsOf(last.trace, "create")
            n  == Len(cr)
        IN  /\ \A i \in 1..n : cr[i].key[4] = i - 1
            /\ \A i \in 1..(n - 1) : cr[i].ret = 0
            /\ IF cr[n].ret # 0
               THEN /\ last.ret = cr[n].ret
                    /\ {e.key[4] : e \in {d \in Range(CallsOf(last.trace, "delete")) :
                                            d.ret = 0}} = 0..(n - 2)
                    /\ Group(items, cr[1].key) = {}
                    /\ items = last.pre.items
               ELSE /\ last.ret = 0
                    /\ n = NewParts
                    /\ {k[4] : k \in Group(items, cr[1].key)} = 0..(n - 1)
    /\ IsDelete /\ last.ret = 0 => Group(items, OldKey) = {}

\* the write of the third part of a create failed, the two parts before it
\* were deleted, next to an attribute of the same hash
CreateUnwindsWitness ==
    /\ IsCreate /\ last.ret = ENOMEM
    /\ Len(CallsOf(last.trace, "create")) = 3
    /\ Len(CallsOf(last.trace, "delete")) = 2
    /\ items # EmptyItems

\* C4: a change from P parts to Q parts that succeeded, for P and Q in
\* 1..4, leaves the group with the parts 0..Q-1 and no other, each the
\* slice of the new attribute at its place.
ChangeParts ==
    IsChange /\ last.ret = 0 =>
        /\ OldParts \in 1..4 /\ NewParts \in 1..4
        /\ {k[4] : k \in Group(items, OldKey)} = 0..(NewParts - 1)
        /\ \A i \in 0..(NewParts - 1) :
                items[KeyPart(OldKey, i)]
                    = Slice(xattr_bytes(last.name, last.value), i * PartSize, PartSize)

\* a change from four parts to two succeeded
ChangePartsWitness ==
    /\ IsChange /\ last.ret = 0
    /\ OldParts = 4 /\ NewParts = 2

\* C5: when the overwrite of an overlapping part fails at the index f,
\* the error is returned with every old part of an index from f on as it
\* was, and the parts removed are the ones that this change created past
\* the old ones.
OverwriteFails ==
    \A f \in 0..3 :
        (IsChange /\ \E e \in Range(CallsOf(last.trace, "update")) :
                        e.ret < 0 /\ e.key[4] = f)
        => /\ last.ret < 0
           /\ \A i \in f..(OldParts - 1) :
                /\ KeyPart(OldKey, i) \in DOMAIN items
                /\ items[KeyPart(OldKey, i)] = last.pre.items[KeyPart(OldKey, i)]
           /\ DOMAIN last.pre.items \subseteq DOMAIN items
           /\ {e.key : e \in {d \in Range(CallsOf(last.trace, "delete")) : d.ret = 0}}
                = {KeyPart(OldKey, i) : i \in OldParts..(NewParts - 1)}
           /\ {e.key : e \in {d \in Range(CallsOf(last.trace, "create")) : d.ret = 0}}
                = {KeyPart(OldKey, i) : i \in OldParts..(NewParts - 1)}

\* the overwrite of the second of two old parts failed in a change to four
\* parts
OverwriteFailsWitness ==
    /\ IsChange /\ last.ret = ENOMEM
    /\ OldParts = 2 /\ NewParts = 4
    /\ \E e \in Range(CallsOf(last.trace, "update")) : e.ret < 0 /\ e.key[4] = 1

\* C6: whenever a change returns an error, from dirtying an old part,
\* from creating a new one or from overwriting one, the items are the P
\* parts there were, as they were: the parts created are deleted, no old
\* part is modified or deleted.
ChangeRestores ==
    IsChange /\ last.ret < 0 =>
        /\ items = last.pre.items
        /\ {k[4] : k \in Group(items, OldKey)} = 0..(OldParts - 1)

\* the creation of the second new part failed in a change from two parts
\* to four
ChangeRestoresWitness ==
    /\ IsChange /\ last.ret = ENOMEM
    /\ OldParts = 2 /\ NewParts = 4
    /\ \E e \in Range(CallsOf(last.trace, "create")) : e.ret < 0 /\ e.key[4] = 3
    /\ \E e \in Range(CallsOf(last.trace, "create")) : e.ret = 0 /\ e.key[4] = 2

\* C7: a delete of an attribute of P parts that returns an error has
\* deleted none of them, and one that returns success all of them.
DeleteAllOrNone ==
    IsDelete =>
        IF last.ret < 0
        THEN items = last.pre.items
        ELSE /\ Group(items, OldKey) = {}
             /\ DOMAIN items = DOMAIN last.pre.items \ Group(last.pre.items, OldKey)

\* the delete of an attribute of three parts failed at its part 0, after
\* the other parts were dirtied
DeleteAllOrNoneWitness ==
    /\ IsDelete /\ last.ret = ENOMEM
    /\ OldParts = 3
    /\ Len(CallsOf(last.trace, "dirty")) = 2
    /\ \E e \in Range(CallsOf(last.trace, "delete")) : e.ret < 0 /\ e.key[4] = 0

\* ------------------------------------------------------------------------
\* Readers and a writer of one inode, store operation by store operation
\* ------------------------------------------------------------------------

\* a reader that does not wait for the writer
down_read_unguarded == TRUE

\* down_read(&si->xattr_rwsem) returns: no writer holds the rwsem
down_read == writer.pc = "idle"

\* down_write(&si->xattr_rwsem) returns: nobody holds the rwsem
down_write == writer.pc = "idle" /\ reader.pc = "idle"

\* the calls of a trace that changed an item
StoreOps(trace) ==
    SelectSeq(trace, LAMBDA e : e.call \in {"create", "update", "delete"}
                                /\ e.ret = 0)

\* the items once the store operation e is done
ApplyOp(its, e) ==
    IF e.call = "delete" THEN RemoveItem(its, e.key)
    ELSE PutItem(its, e.key, e.arg)

\* the items between the calls of writers, as a reader that begins now
\* can meet them
Quiescent ==
    IF writer.pc = "idle" THEN {items}
    ELSE {writer.call.pre.items, writer.r.w.items}

\* scoutfs_xattr_set up to down_write and what it will do to the store;
\* removexattr is the set of no value with XATTR_REPLACE
WriteBegin(U) ==
    /\ last.op = "none" /\ down_write
    /\ \E ino \in DOMAIN U.sets \ dead :
       \E q \in U.sets[ino], env \in U.envs :
        \E size \in {IF q.value = NULL THEN 1 ELSE Len(q.value)} :
        \E r0 \in {scoutfs_setxattr(State, ino, q.name, q.value, size,
                                    q.flags, env, NoFail)} :
            \E fail \in IF U.fails THEN FailPoints(r0.w.trace) ELSE {NoFail} :
                \E r \in {scoutfs_setxattr(State, ino, q.name, q.value, size,
                                          q.flags, env, fail)} :
                    /\ r.next_id + next_xattr_id[3 - ino] <= U.maxid
                    /\ writer' = [pc |-> "write", ops |-> StoreOps(r.w.trace),
                                  r |-> r,
                                  call |-> Call("set", ino, q.name, q.value,
                                                q.flags, env, r.ret, <<>>,
                                                r.w.trace, State)]
                    /\ UNCHANGED <<items, totl, srch, next_xattr_id, dead,
                                   last, reader>>

\* the writer's next store operation
WriteStep ==
    /\ writer.pc = "write" /\ writer.ops # <<>>
    /\ items' = ApplyOp(items, Head(writer.ops))
    /\ writer' = [writer EXCEPT !.ops = Tail(@)]
    /\ UNCHANGED <<totl, srch, next_xattr_id, dead, last, reader>>

\* release: and unlock: of scoutfs_xattr_set, and its return
WriteEnd ==
    /\ last.op = "none"
    /\ writer.pc = "write" /\ writer.ops = <<>>
    /\ Returned(writer.r, writer.call.ino, writer.r.next_id)
    /\ last' = writer.call
    /\ writer' = Idle
    /\ UNCHANGED <<dead, reader>>

\* scoutfs_getxattr up to down_read
GetBegin(U) ==
    /\ last.op = "none" /\ reader.pc = "idle" /\ down_read
    /\ \E ino \in DOMAIN U.gets \ dead :
       \E q \in U.gets[ino] :
        /\ reader' = [pc |-> "get", ino |-> ino, name |-> q.name,
                      size |-> q.size, snaps |-> Quiescent,
                      l |-> IF unknown_prefix(q.name)
                            THEN GnDone(get_next_init(q.name, 0, 0), EOPNOTSUPP)
                            ELSE IF Len(q.name) > MaxNameLen
                            THEN GnDone(get_next_init(q.name, 0, 0), ENOENT)
                            ELSE get_next_init(q.name, 0, 0)]
        /\ UNCHANGED <<items, totl, srch, next_xattr_id, dead, last, writer>>

\* one pass of the loop of get_next_xattr under scoutfs_getxattr
GetStep ==
    /\ reader.pc = "get" /\ ~reader.l.done
    /\ reader' = [reader EXCEPT
                    !.l = get_next_iter(items, reader.ino,
                                        HdrSize + Len(reader.name) + reader.size,
                                        reader.name, @)]
    /\ UNCHANGED <<items, totl, srch, next_xattr_id, dead, last, writer>>

\* what the get of the reader returns when its lookup is done
GetResult ==
    getxattr_result([ret |-> reader.l.ret, key |-> reader.l.key,
                     xat |-> reader.l.xat], reader.size)

\* up_read and the return of scoutfs_getxattr
GetEnd ==
    /\ last.op = "none"
    /\ reader.pc = "get" /\ reader.l.done
    /\ last' = Call("get", reader.ino, reader.name, <<>>, {},
                    Env(TRUE, TRUE, FALSE), GetResult.ret, GetResult.buffer,
                    <<>>, State)
    /\ reader' = Idle
    /\ UNCHANGED <<items, totl, srch, next_xattr_id, dead, writer>>

\* scoutfs_listxattr up to down_read
ListBegin(U) ==
    /\ last.op = "none" /\ reader.pc = "idle" /\ down_read
    /\ \E ino \in DOMAIN U.lists \ dead :
       \E size \in U.lists[ino] :
        /\ reader' = [pc |-> "list", ino |-> ino, size |-> size,
                      snaps |-> Quiescent, s |-> list_init(0, 0)]
        /\ UNCHANGED <<items, totl, srch, next_xattr_id, dead, last, writer>>

\* one pass of the loop of scoutfs_list_xattrs
ListStep ==
    /\ reader.pc = "list" /\ ~reader.s.done
    /\ reader' = [reader EXCEPT
                    !.s = list_iter(items, reader.ino, reader.size, TRUE, FALSE, @)]
    /\ UNCHANGED <<items, totl, srch, next_xattr_id, dead, last, writer>>

\* up_read and the return of scoutfs_listxattr
ListEnd ==
    /\ last.op = "none"
    /\ reader.pc = "list" /\ reader.s.done
    /\ last' = Call("list", reader.ino, <<>>, <<>>, {}, Env(TRUE, TRUE, FALSE),
                    reader.s.ret, reader.s.buffer, <<>>, State)
    /\ reader' = Idle
    /\ UNCHANGED <<items, totl, srch, next_xattr_id, dead, writer>>

\* the ids that the inode hands out while readers meet a writer
MaxIdRW == 2

URW == [sets |-> [i \in {1} |->
                    Requests({NameUa}, {Fill(3, "p"), Fill(14, "p"), Fill(14, "q"),
                                        Fill(26, "q")},
                             NULL, {{XATTR_REPLACE}})
                    \cup Requests({NameUd}, {Fill(14, "q")}, NULL,
                                   {{XATTR_REPLACE}})],
        gets |-> [i \in {1} |-> {[name |-> NameUa, size |-> MaxValLen]}],
        lists |-> [i \in {1} |-> {MaxNameLen}],
        envs |-> {Env(TRUE, TRUE, FALSE)},
        fails |-> TRUE,
        maxid |-> MaxIdRW]

NextRW ==
    \/ WriteBegin(URW) \/ WriteStep \/ WriteEnd
    \/ GetBegin(URW) \/ GetStep \/ GetEnd
    \/ ListBegin(URW) \/ ListStep \/ ListEnd
    \/ Return

SpecRW == Init /\ [][NextRW]_vars

\* C8: a get or a list of an inode next to a set or a remove of it,
\* store operation by store operation, readers after down_read and the
\* writer after down_write, meets no attribute with a part missing or with
\* parts of the old and of the new value: the get returns what it returns
\* from the items before or after the writer's call, the whole old value,
\* the whole new value or ENODATA, and the list the names there were
\* before or after.
AtomicReads ==
    /\ reader.pc = "get" /\ reader.l.done
        => /\ GetResult.ret # EIO
           /\ \E its \in reader.snaps :
                GetResult = scoutfs_getxattr(its, reader.ino, reader.name,
                                             reader.size)
    /\ reader.pc = "list" /\ reader.s.done
        => /\ reader.s.ret # EIO
           /\ \E its \in reader.snaps :
                list_result(reader.s) = scoutfs_listxattr(its, reader.ino,
                                                          reader.size)

\* a get read the two parts of the value that a change from three parts,
\* done store operation by store operation, left
AtomicReadsWitness ==
    /\ reader.pc = "get" /\ reader.l.done
    /\ GetResult.buffer = Fill(14, "p")
    /\ reader.l.part = 1
    /\ \E k \in DOMAIN items : xat_name(items[k]) = NameUd /\ k[4] = 0

\* ------------------------------------------------------------------------
\* The tags of a name
\* ------------------------------------------------------------------------

TagTokens == {"hide.", "srch.", "totl.", "worm."}

\* the bytes that follow the prefix, at most
MaxTagBytes == 3

\* the names that are parsed: a prefix and then tags and a byte "a" that is
\* none; a byte stands for up to TAG_LEN characters
TagNames ==
    {<<p>> \o r : p \in {"scoutfs.", "user."},
                  r \in UNION {[1..n -> TagTokens \cup {"a"}] :
                                    n \in 0..MaxTagBytes}}

\* scoutfs_xattr_parse_tags on a name, under either format version
ParseTags ==
    /\ last.op = "none"
    /\ \E name \in TagNames, fmt_vers \in {1, 2} :
        \E r \in {scoutfs_xattr_parse_tags(name, fmt_vers)} :
            last' = [op |-> "parse_tags", name |-> name, fmt_vers |-> fmt_vers,
                     ret |-> r.ret, tgs |-> r.tgs]
    /\ UNCHANGED <<items, totl, srch, next_xattr_id, dead, writer, reader>>

\* deltas whose sums wrap and come to zero
TotlDeltas ==
    {[total |-> t, count |-> c] :
        t \in {0, U64Mod \div 2}, c \in {0, 1, U64Mod - 1}}

\* three deltas of one total are applied one after the other, in the
\* reverse order, and the first and then the merge of the other two
ApplyDeltas ==
    /\ last.op = "none"
    /\ \E a \in TotlDeltas, b \in TotlDeltas, c \in TotlDeltas :
       \E key \in {<<1, 2, 3>>}, w \in {World(items, totl, srch)} :
       \E wa \in {apply_totl_delta(w, key, a, NoFail)},
          wc \in {apply_totl_delta(w, key, c, NoFail)},
          bc \in {scoutfs_xattr_combine_totl(b, c)} :
       \E wab \in {apply_totl_delta(wa.w, key, b, NoFail)},
          wcb \in {apply_totl_delta(wc.w, key, b, NoFail)},
          grp \in {apply_totl_delta(wa.w, key, bc.dst, NoFail)} :
       \E seq \in {apply_totl_delta(wab.w, key, c, NoFail)},
          rev \in {apply_totl_delta(wcb.w, key, a, NoFail)} :
            /\ totl' = seq.w.totl
            /\ last' = [op |-> "deltas", key |-> key, a |-> a, b |-> b,
                        c |-> c, pre |-> totl, merged |-> bc,
                        first |-> [totl |-> wa.w.totl, trace |-> wa.w.trace],
                        seq |-> seq.w.totl, rev |-> rev.w.totl,
                        grp |-> grp.w.totl]
    /\ UNCHANGED <<items, srch, next_xattr_id, dead, writer, reader>>

NextCalls == ParseTags \/ ApplyDeltas \/ Return

SpecCalls == Init /\ [][NextCalls]_vars

\* the tag tokens that follow one another at the head of s
RECURSIVE TagRun(_)
TagRun(s) ==
    IF s # <<>> /\ Head(s) \in TagTokens
    THEN <<Head(s)>> \o TagRun(Tail(s)) ELSE <<>>

\* how often t is in s
Count(s, t) == Cardinality({i \in 1..Len(s) : s[i] = t})

\* the flag of the tag t in tgs
TagOf(tgs, t) ==
    IF t = "hide." THEN tgs.hide
    ELSE IF t = "srch." THEN tgs.srch
    ELSE IF t = "totl." THEN tgs.totl
    ELSE tgs.worm

\* the names of the reserved namespace that carry the tags of name in some
\* order before the same bytes
Reordered(name) ==
    {n \in TagNames :
        /\ Head(n) = "scoutfs." /\ Len(n) = Len(name)
        /\ Len(TagRun(Tail(n))) = Len(TagRun(Tail(name)))
        /\ \A t \in TagTokens :
            Count(TagRun(Tail(n)), t) = Count(TagRun(Tail(name)), t)
        /\ \A i \in 1..Len(n) :
            i > 1 + Len(TagRun(Tail(name))) => n[i] = name[i]}

\* C11: for a name of the reserved namespace the parse sets exactly the
\* flags of the tags between the prefix and the first byte that is no tag,
\* gives the same result for every order of these tags, and rejects the
\* name when a tag is there more than once.
TagsParsed ==
    (last.op = "parse_tags" /\ Head(last.name) = "scoutfs.") =>
        /\ (\E t \in TagTokens : Count(TagRun(Tail(last.name)), t) > 1)
            => last.ret = EINVAL
        /\ last.ret = 0
            => \A t \in TagTokens :
                TagOf(last.tgs, t)
                    = IF Count(TagRun(Tail(last.name)), t) > 0 THEN 1 ELSE 0
        /\ \A n \in Reordered(last.name) :
            /\ scoutfs_xattr_parse_tags(n, last.fmt_vers).ret = last.ret
            /\ last.ret = 0
                => scoutfs_xattr_parse_tags(n, last.fmt_vers).tgs = last.tgs

\* C12: a name of the reserved namespace that has no tag right after the
\* prefix is rejected, so that no name of the reserved namespace is
\* accepted without a tag; a name outside the reserved namespace is
\* accepted without a tag.
UntaggedRejected ==
    last.op = "parse_tags" =>
        /\ (Head(last.name) = "scoutfs." /\ TagRun(Tail(last.name)) = <<>>)
            => last.ret = EINVAL
        /\ (Head(last.name) = "scoutfs." /\ last.ret = 0)
            => last.tgs # NoTags
        /\ Head(last.name) # "scoutfs."
            => (last.ret = 0 /\ last.tgs = NoTags)

\* ------------------------------------------------------------------------
\* Callers without the capability, inodes behind the write-once barrier
\* ------------------------------------------------------------------------

\* names of the reserved namespace: shorter than the prefix, a tag and a
\* byte; tagged; with no tag; with a tag twice; and a name outside of it
NamesC == {<<"scoutfs.", "a">>, <<"scoutfs.", "hide.", "a">>, NameT123,
           <<"scoutfs.", "a", "b">>, <<"scoutfs.", "hide.", "hide.", "a">>,
           <<"user.", "a">>}

\* the ids that the inode hands out while callers are checked
MaxIdC == 3

UC == [sets |-> [i \in {1} |->
                    Requests(NamesC, {<<"8">>, <<>>, NULL}, <<"8">>,
                             {{XATTR_CREATE}, {XATTR_REPLACE}})],
       removes |-> [i \in {1} |-> NamesC],
       gets |-> [i \in {1} |-> {}],
       envs |-> {Env(c, TRUE, d) : c \in BOOLEAN, d \in BOOLEAN},
       fails |-> FALSE,
       maxid |-> MaxIdC]

NextCap == SetXattr(UC) \/ RemoveXattr(UC) \/ Return

SpecCap == Init /\ [][NextCap]_vars

\* C13: a set or a remove of a name of the reserved namespace by a caller
\* without CAP_SYS_ADMIN returns -EPERM before a lock is taken and changes
\* nothing.
CapRequired ==
    (/\ last.op \in {"set", "remove"}
     /\ Head(last.name) = "scoutfs."
     /\ ~last.env.capable)
        => (last.ret = EPERM /\ last.trace = <<>> /\ NothingChanged)

\* the call went past the existence checks of the set: the lock was taken
\* and neither the flags nor the delete of a missing record stopped it
PassedExistence ==
    /\ last.op \in {"set", "remove"}
    /\ "down_write" \in Calls(last.trace)
    /\ ~check_existence(IF HasRecord(last.pre.items, last.ino, last.name)
                        THEN 0 ELSE ENOENT,
                        last.flags, last.value # NULL).stop

\* C14: while the write-once barrier of the inode is active a set or a
\* remove changes no item, total, registration, id or write-once state and
\* holds no transaction, and the call that passed the existence checks
\* returns -EACCES.
WormDenied ==
    (last.op \in {"set", "remove"} /\ last.env.worm_denied)
        => /\ NothingChanged
           /\ Calls(last.trace) \cap {"hold_trans", "set_worm", "create",
                                      "update", "delete", "delta", "srch",
                                      "dirty", "dirty_inode"} = {}
           /\ PassedExistence => last.ret = EACCES

\* the update of a stored attribute and the remove of one, both denied
WormDeniedWitness ==
    /\ last.env.worm_denied
    /\ PassedExistence
    /\ last.ret = EACCES
    /\ HasRecord(items, last.ino, last.name)
    /\ last.op = "remove"

\* ------------------------------------------------------------------------
\* Listings from a cursor
\* ------------------------------------------------------------------------

\* names whose hashes collide and differ, of two lengths, with the hide tag
\* and without it, and the prefix with the hide tag and nothing after it
NamesL == {<<"user.", "a">>, <<"user.", "d">>, <<"user.", "b", "b">>,
           <<"scoutfs.", "hide.", "a">>, <<"scoutfs.", "hide.", "b">>,
           <<"scoutfs.", "hide.">>}

\* the ids that the inode hands out while it is listed
MaxIdL == 4

\* a buffer that holds every name of the inode
MaxListSize == 4 * MaxIdL

UL == [sets |-> [i \in {1} |->
                    Requests(NamesL, {<<>>}, <<>>, {})
                    \cup Requests({NameUa}, {Fill(14, "p")}, <<>>, {})],
       removes |-> [i \in {1} |-> NamesL],
       lookups |-> [i \in {1} |-> NamesL \cup {<<"user.", "b">>}],
       gets |-> [i \in {1} |-> {}],
       lists |-> [i \in {1} |-> {0, 3, 4, 7, MaxListSize}],
       envs |-> {Env(TRUE, TRUE, FALSE)},
       fails |-> FALSE,
       maxid |-> MaxIdL]

\* the names of a buffer that scoutfs_list_xattrs filled
RECURSIVE SplitNames(_, _)
SplitNames(buffer, name) ==
    IF buffer = <<>> THEN <<>>
    ELSE IF Head(buffer) = NUL
    THEN <<name>> \o SplitNames(Tail(buffer), <<>>)
    ELSE SplitNames(Tail(buffer), Append(name, Head(buffer)))

\* a caller starts to list an inode from the cursor (0, 0) with buffers of
\* size bytes
PageBegin(U) ==
    /\ last.op = "none" /\ writer.pc = "idle" /\ reader.pc = "idle"
    /\ \E ino \in DOMAIN U.lists \ dead :
       \E size \in U.lists[ino], e_range \in BOOLEAN, show_hidden \in BOOLEAN :
        reader' = [pc |-> "paging", ino |-> ino, size |-> size,
                   e_range |-> e_range, show_hidden |-> show_hidden,
                   hash_pos |-> 0, id_pos |-> 0, names |-> <<>>]
    /\ UNCHANGED <<items, totl, srch, next_xattr_id, dead, last, writer>>

\* scoutfs_list_xattrs from the cursor of the caller, who keeps the names
\* and the cursor that it returns
PageStep ==
    /\ last.op = "none" /\ reader.pc = "paging"
    /\ \E r \in {scoutfs_list_xattrs(items, reader.ino, reader.size,
                                     reader.hash_pos, reader.id_pos,
                                     reader.e_range, reader.show_hidden)} :
        /\ last' = [op |-> "page", ino |-> reader.ino, size |-> reader.size,
                    e_range |-> reader.e_range,
                    show_hidden |-> reader.show_hidden,
                    ret |-> r.ret, buffer |-> r.buffer,
                    hash_pos |-> r.hash_pos, id_pos |-> r.id_pos]
        /\ reader' = [reader EXCEPT
                        !.hash_pos = r.hash_pos, !.id_pos = r.id_pos,
                        !.names = @ \o SplitNames(r.buffer, <<>>)]
    /\ UNCHANGED <<items, totl, srch, next_xattr_id, dead, writer>>

\* the items that the loop of get_next_xattr reads from the locals l on:
\* the [ret, key] of each scoutfs_item_next
RECURSIVE Visits(_, _, _, _, _)
Visits(its, ino, bytes, name, l) ==
    IF l.done THEN <<>>
    ELSE CHOOSE res \in
           {<<[ret |-> r.ret, key |-> r.key]>>
                \o Visits(its, ino, bytes, name, n) :
            r \in {scoutfs_item_next(its, <<ino, l.hash, l.id, l.part>>,
                                     bytes - l.total)},
            n \in {get_next_iter(its, ino, bytes, name, l)}} : TRUE

\* get_next_xattr for a name, with the buffer of scoutfs_xattr_set
Lookup(U) ==
    /\ last.op = "none" /\ writer.pc = "idle" /\ reader.pc = "idle"
    /\ \E ino \in DOMAIN U.lookups \ dead :
       \E name \in U.lookups[ino] :
        \E bytes \in {HdrSize + Len(name) + MaxTotlU64} :
        \E g \in {get_next_xattr(items, ino, bytes, name, 0, 0)} :
        \E v \in {Visits(items, ino, bytes, name,
                          get_next_init(name, 0, 0))} :
            last' = [op |-> "lookup", ino |-> ino, name |-> name,
                     ret |-> g.ret, key |-> g.key, xat |-> g.xat,
                     visits |-> v]
    /\ UNCHANGED <<items, totl, srch, next_xattr_id, dead, writer, reader>>

\* the caller stops listing
PageEnd ==
    /\ last.op = "none" /\ reader.pc = "paging"
    /\ reader' = Idle
    /\ UNCHANGED <<items, totl, srch, next_xattr_id, dead, last, writer>>

NextList ==
    SetXattr(UL) \/ RemoveXattr(UL) \/ PageBegin(UL) \/ PageStep \/ PageEnd
    \/ Lookup(UL) \/ Return

SpecList == Init /\ [][NextList]_vars

\* the names of one listing of ino into a buffer that holds them all
ListAll(ino, show_hidden) ==
    SplitNames(scoutfs_list_xattrs(items, ino, MaxListSize, 0, 0, TRUE,
                                   show_hidden).buffer, <<>>)

\* what the lookup finds at the cursor of the caller
AtCursor ==
    get_next_xattr(items, reader.ino, HdrSize + MaxNameLen, <<>>,
                   reader.hash_pos, reader.id_pos)

\* the (hash, id) of the record of ino named name
KeyOf(ino, name) ==
    CHOOSE hi \in {<<k[2], k[3]>> : k \in RecordsOf(items, ino, name)} : TRUE

\* C15: a listing that stops at a name that does not fit returns -ERANGE
\* or the bytes it filled, and its cursor is at the first name that it did
\* not return; the names of the listings from each returned cursor, until
\* nothing is left at the cursor, are the names of one listing into a buffer
\* that holds them all, each once and in increasing (hash, id) order.
ListResumes ==
    (last.op = "page" /\ last.size > 0) =>
        LET all  == ListAll(last.ino, last.show_hidden)
            n    == Len(reader.names)
        IN  /\ last.ret \in {ERANGE, Len(last.buffer)}
            /\ AtCursor.ret >= 0
                => /\ last.ret = IF last.e_range THEN ERANGE
                                 ELSE Len(last.buffer)
                   /\ n < Len(all)
                   /\ xat_name(AtCursor.xat) = all[n + 1]
            /\ AtCursor.ret < 0
                => /\ AtCursor.ret = ENOENT
                   /\ last.ret = Len(last.buffer)
                   /\ reader.names = all
            /\ \A i \in 1..n : reader.names[i] = all[i]
            /\ \A i \in 1..Len(all), j \in 1..Len(all) :
                i < j =>
                    LET a == KeyOf(last.ino, all[i])
                        b == KeyOf(last.ino, all[j])
                    IN  a[1] < b[1] \/ (a[1] = b[1] /\ a[2] < b[2])

\* a listing of three names in three buffers: the second stopped at the
\* third name, whose hash is that of the second
ListResumesWitness ==
    /\ last.op = "page" /\ last.size > 0 /\ last.size < MaxListSize
    /\ Len(reader.names) = 2
    /\ Len(SplitNames(last.buffer, <<>>)) = 1
    /\ AtCursor.ret >= 0
    /\ Len(ListAll(last.ino, last.show_hidden)) = 3
    /\ xattr_name_hash(xat_name(AtCursor.xat))
        = xattr_name_hash(reader.names[2])

\* the names of the attributes that ino stores
StoredNames(ino) ==
    {xat_name(items[k]) : k \in {q \in DOMAIN items : q[1] = ino /\ q[4] = 0}}

\* the name has the hide tag among the tags after the prefix
CarriesHide(name) ==
    Head(name) = "scoutfs." /\ Count(TagRun(Tail(name)), "hide.") > 0

\* C16: the listing without show_hidden returns no stored attribute with
\* the hide tag, the listing with show_hidden returns exactly the stored
\* attributes with the hide tag, and every stored attribute is in exactly
\* one of the two.
HideListed ==
    (last.op = "page" /\ last.size = MaxListSize) =>
        /\ Range(reader.names)
            = {n \in StoredNames(last.ino) : CarriesHide(n) = last.show_hidden}
        /\ Range(ListAll(last.ino, TRUE)) \cup Range(ListAll(last.ino, FALSE))
            = StoredNames(last.ino)
        /\ Range(ListAll(last.ino, TRUE)) \cap Range(ListAll(last.ino, FALSE))
            = {}

\* the items of the visits that are the first items of a record
FirstParts(visits) == SelectSeq(visits, LAMBDA v : v.ret >= 0 /\ v.key[4] = 0)

\* C17: the lookup of a name returns a record exactly when the inode stores
\* a record of that name, and then the record of that name; it reads the
\* records of the hash of the name by ascending id and returns -ENOENT at
\* the first item of another hash or when no item is left.
LookupFinds ==
    last.op = "lookup" =>
        LET recs == RecordsOf(items, last.ino, last.name)
            hash == xattr_name_hash(last.name)
            fp   == FirstParts(last.visits)
            n    == Len(last.visits)
        IN  /\ last.ret >= 0 <=> recs # {}
            /\ recs = {} => last.ret = ENOENT
            /\ last.ret >= 0
                => /\ xat_name(last.xat) = last.name
                   /\ <<last.key[1], last.key[2], last.key[3], 0>> \in recs
            /\ \A i \in 1..Len(fp), j \in 1..Len(fp) :
                (i < j) => /\ fp[i].key[2] = hash
                           /\ fp[j].key[2] = hash
                                => fp[i].key[3] < fp[j].key[3]
            /\ \A i \in 1..n :
                (last.visits[i].ret < 0 \/ last.visits[i].key[2] # hash)
                    => (i = n /\ last.ret = ENOENT)

\* the lookup went past two records of the hash of the name and found the
\* third
LookupFindsWitness ==
    /\ last.op = "lookup"
    /\ last.ret >= 0
    /\ Len(FirstParts(last.visits)) = 3
    /\ last.key[3] = 2

\* C18: after a set of a name to a value returned 0, the get of the name
\* into a buffer that is not shorter than the value returns the length of
\* the value and the value.
SetThenGet ==
    (last.op = "set_get" /\ last.ret = 0) =>
        (last.get_ret = Len(last.value) /\ last.buffer = last.value)

\* a value that fills two parts took the place of one of another number of
\* parts, beside an attribute of the same hash, and was read into a buffer
\* of its length
SetThenGetWitness ==
    /\ last.op = "set_get" /\ last.ret = 0
    /\ Len(last.value) = 2 * PartSize - HdrSize - 2
    /\ last.size = Len(last.value)
    /\ last.buffer = last.value
    /\ HasRecord(last.pre.items, last.ino, last.name)
    /\ "update" \in Calls(last.trace)
    /\ HasRecord(items, last.ino, NameUd)

\* the sum of the fields of two values of a total
TvalSum(x, y) ==
    [total |-> (x.total + y.total) % U64Mod,
     count |-> (x.count + y.count) % U64Mod]

\* C19: the merge of a delta adds total to total and count to count modulo
\* 2^64, so that deltas give the same total in every order and grouping;
\* the merge reports null exactly when both sums are zero; a delta of zero
\* total and zero count is not given to the store.
DeltasCommute ==
    last.op = "deltas" =>
        LET sum == TvalSum(TvalSum(Bucket(last.pre, last.key), last.a),
                           TvalSum(last.b, last.c))
        IN  /\ last.seq = last.rev
            /\ last.seq = last.grp
            /\ Bucket(last.seq, last.key) = sum
            /\ last.merged.dst = TvalSum(last.b, last.c)
            /\ last.merged.ret = SCOUTFS_DELTA_COMBINED_NULL
                <=> last.merged.dst = ZeroTval
            /\ last.a = ZeroTval
                => (last.first.totl = last.pre /\ last.first.trace = <<>>)
            /\ last.a # ZeroTval => Calls(last.first.trace) = {"delta"}

\* deltas whose totals wrap, of which two merge to null, applied to a total
\* that is stored
DeltasCommuteWitness ==
    /\ last.op = "deltas"
    /\ last.key \in DOMAIN last.pre
    /\ last.a.total + last.b.total >= U64Mod
    /\ last.merged.ret = SCOUTFS_DELTA_COMBINED_NULL
    /\ last.b # ZeroTval
    /\ last.key \in DOMAIN last.seq
    /\ last.seq # last.pre

\* ------------------------------------------------------------------------
\* The keys of totals
\* ------------------------------------------------------------------------

\* the bytes after the totl tag, at most: with the prefix and the tag a
\* name of SCOUTFS_XATTR_MAX_NAME_LEN bytes
MaxKeyBytes == MaxNameLen - PrefixLen - TagLen

\* names with the totl tag and then digits, dots and '+'
TotlNames ==
    {<<"scoutfs.", "totl.">> \o r :
        r \in UNION {[1..n -> {"1", "9", ".", "+"}] : n \in 0..MaxKeyBytes}}

\* the id that the inode hands out while keys are checked
MaxIdK == 1

UK == [sets |-> [i \in {1} |-> Requests(TotlNames, {<<"1">>}, <<"1">>, {})],
       envs |-> {Env(TRUE, TRUE, FALSE)},
       fails |-> FALSE,
       maxid |-> MaxIdK]

NextKeys == SetXattr(UK) \/ Return

SpecKeys == Init /\ [][NextKeys]_vars

\* the places of the dots of a name, ascending
DotsOf(name) ==
    SelectSeq([i \in 1..Len(name) |-> i], LAMBDA i : IsDot(name[i]))

\* the fields of a name: what follows each of its dots, up to the next dot
\* or the end
FieldsOf(name) ==
    LET dots == DotsOf(name)
    IN  [k \in 1..Len(dots) |->
            SubSeq(name, dots[k] + 1,
                   IF k < Len(dots) THEN dots[k + 1] - 1 ELSE Len(name))]

\* the number that decimal digits write
RECURSIVE DecVal(_)
DecVal(f) ==
    IF f = <<>> THEN 0
    ELSE 10 * DecVal(SubSeq(f, 1, Len(f) - 1)) + DigitVal(f[Len(f)], 10)

\* the field is empty, starts with '+' or writes no u64
BadField(f) ==
    \/ f = <<>>
    \/ f[1] = "+"
    \/ \E i \in 1..Len(f) : DigitVal(f[i], 10) < 0
    \/ DecVal(f) >= U64Mod

KeysOf(its, ino) == {k \in DOMAIN its : k[1] = ino}

\* the keys that the calls call of a trace returned 0 for, in their order
DoneKeys(trace, call) ==
    LET done == SelectSeq(trace, LAMBDA e : e.call = call /\ e.ret = 0)
    IN  [i \in 1..Len(done) |-> done[i].key]

\* C21: a drop returns after at most one pass for each item of the inode;
\* each pass that holds the transaction deletes the first item that is left
\* or is the last pass; when the drop returns 0 no item of the inode is
\* left.
DropDeletesAll ==
    last.op = "drop" =>
        LET pre  == KeysOf(last.pre.items, last.ino)
            dels == DoneKeys(last.trace, "delete")
            n    == Len(last.trace)
        IN  /\ Len(dels) <= Cardinality(pre)
            /\ \A i \in 1..Len(dels) :
                /\ dels[i] \in pre
                /\ \A k \in pre \ {dels[j] : j \in 1..(i - 1)} :
                    KeyLE(dels[i], k)
            /\ KeysOf(items, last.ino) = pre \ Range(dels)
            /\ \A i \in 1..n :
                (last.trace[i].call = "hold_trans" /\ last.trace[i].ret = 0)
                    => /\ i < n
                       /\ last.trace[i + 1].call = "delete"
                       /\ last.trace[i + 1].key = last.trace[i].key
            /\ \A i \in 1..n, j \in 1..n :
                (last.trace[i].ret < 0 /\ i < j)
                    => last.trace[j].call \in {"release_trans", "unlock_totl"}
            /\ last.ret = 0 => KeysOf(items, last.ino) = {}

\* a drop that returned 0 after it deleted both parts of one record and the
\* item of another
DropDeletesAllWitness ==
    /\ last.op = "drop" /\ last.ret = 0
    /\ Len(DoneKeys(last.trace, "delete")) >= 3
    /\ \E i \in 1..Len(last.trace) :
        last.trace[i].call = "delete" /\ last.trace[i].key[4] = 1
    /\ KeysOf(last.pre.items, 3 - last.ino) # {}

\* ------------------------------------------------------------------------
\* The order of the calls of delete and change
\* ------------------------------------------------------------------------

\* the places in the last trace of the item calls call
PlacesOf(call) == {i \in 1..Len(last.trace) : last.trace[i].call = call}

\* the parts of the item calls call of the last trace, in their order
PartsOf(call) ==
    LET c == CallsOf(last.trace, call)
    IN  [i \in 1..Len(c) |-> c[i].key[4]]

\* C22 as stated: a delete of an attribute of P parts dirties each of the
\* parts 0..P-1 before it deletes a part, and deletes the parts in
\* ascending order.
DeleteDirtiesAll ==
    (IsDelete /\ PlacesOf("delete") # {}) =>
        /\ \A p \in 0..(OldParts - 1) :
            \E i \in PlacesOf("dirty") :
                /\ last.trace[i].key[4] = p
                /\ \A j \in PlacesOf("delete") : i < j
        /\ \A i \in 1..Len(PartsOf("delete")) : PartsOf("delete")[i] = i - 1

\* C22: a delete of an attribute of P parts dirties the parts 1..P-1, in
\* this order and not part 0, before it deletes a part, and deletes the
\* parts in ascending order from part 0, which alone was not dirtied.
DeleteOrder ==
    IsDelete =>
        /\ \A i \in 1..Len(PartsOf("dirty")) : PartsOf("dirty")[i] = i
        /\ Len(PartsOf("dirty")) <= OldParts - 1
        /\ PlacesOf("delete") # {}
            => /\ Len(PartsOf("dirty")) = OldParts - 1
               /\ \A i \in PlacesOf("dirty"), j \in PlacesOf("delete") : i < j
        /\ \A i \in 1..Len(PartsOf("delete")) : PartsOf("delete")[i] = i - 1
        /\ last.ret = 0 => Len(PartsOf("delete")) = OldParts

\* the delete of an attribute of four parts: three dirtied, four deleted
DeleteOrderWitness ==
    /\ IsDelete /\ last.ret = 0
    /\ OldParts = 4
    /\ PartsOf("dirty") = <<1, 2, 3>>
    /\ PartsOf("delete") = <<0, 1, 2, 3>>


\* C23: a change from P parts to Q parts dirties the old parts 0..P-1
\* before any other item call, creates the parts from P on before it
\* overwrites a part, overwrites the overlapping parts in descending order
\* down to part 0, and deletes the old parts from Q on only after part 0
\* was overwritten.
ChangeOrder ==
    IsChange =>
        /\ \A i \in 1..Len(PartsOf("dirty")) : PartsOf("dirty")[i] = i - 1
        /\ \A i \in PlacesOf("dirty"),
              j \in PlacesOf("create") \cup PlacesOf("update") \cup PlacesOf("delete") :
                i < j
        /\ PlacesOf("create") \cup PlacesOf("update") \cup PlacesOf("delete") # {}
            => /\ Len(PartsOf("dirty")) = OldParts
               /\ \A e \in Range(CallsOf(last.trace, "dirty")) : e.ret = 0
        /\ \A i \in 1..Len(PartsOf("create")) :
                PartsOf("create")[i] = OldParts + i - 1
        /\ \A i \in PlacesOf("create"), j \in PlacesOf("update") : i < j
        /\ PlacesOf("update") # {}
            => /\ Len(PartsOf("create")) = NewParts - Min(OldParts, NewParts)
               /\ \A e \in Range(CallsOf(last.trace, "create")) : e.ret = 0
        /\ \A i \in 1..Len(PartsOf("update")) :
                PartsOf("update")[i] = Min(OldParts, NewParts) - i
        /\ \A j \in PlacesOf("delete") :
            LET k == last.trace[j].key[4]
            IN  IF k < OldParts
                THEN /\ k >= NewParts
                     /\ \E i \in PlacesOf("update") :
                            /\ i < j
                            /\ last.trace[i].key[4] = 0
                            /\ last.trace[i].ret = 0
                     /\ \A i \in PlacesOf("update") : i < j
                ELSE last.ret < 0
        /\ last.ret = 0
            => /\ Len(PartsOf("update")) = Min(OldParts, NewParts)
               /\ {last.trace[j].key[4] : j \in PlacesOf("delete")}
                    = NewParts..(OldParts - 1)

\* a change from four parts to two: four dirtied, two overwritten, the
\* second first, then two deleted
ChangeOrderWitness ==
    /\ IsChange /\ last.ret = 0
    /\ OldParts = 4 /\ NewParts = 2
    /\ PartsOf("dirty") = <<0, 1, 2, 3>>
    /\ PartsOf("update") = <<1, 0>>
    /\ PartsOf("delete") = <<2, 3>>


\* ------------------------------------------------------------------------
\* Reads and drops of a store that lost bytes
\* ------------------------------------------------------------------------

\* the ids that the inode hands out before its store is damaged
MaxIdF == 3

\* the items its are the ones that sets and removes leave: every item is
\* a part of an attribute whose part 0 is there, and every attribute has
\* each of its parts with each of its bytes
WellFormed(its) ==
    \A k \in DOMAIN its :
        /\ KeyPart(k, 0) \in DOMAIN its
        /\ Len(its[KeyPart(k, 0)]) >= HdrSize
        /\ k[4] < xattr_nr_parts(its[KeyPart(k, 0)])
        /\ k[4] = 0 =>
            \A i \in 0..(xattr_nr_parts(its[k]) - 1) :
                /\ KeyPart(k, i) \in DOMAIN its
                /\ Len(its[KeyPart(k, i)])
                     = Min(PartSize, xattr_full_bytes(its[k]) - i * PartSize)

UF == [sets |-> [i \in {1} |->
                    Requests({NameUa}, {Fill(3, "p"), Fill(26, "p")}, <<>>, {})
                    \cup Requests({NameT123, NameT124}, {<<"8">>}, <<>>, {})],
       removes |-> [i \in {1} |-> {}],
       gets |-> [i \in {1} |->
                    {[name |-> NameUa, size |-> z] : z \in {0, 3, 8, 10, 20, 26}}],
       lists |-> [i \in {1} |-> {0, MaxListSize}],
       drops |-> {1},
       envs |-> {Env(TRUE, TRUE, FALSE)},
       fails |-> FALSE,
       maxid |-> MaxIdF]

\* the store loses a part after part 0 of an attribute, or the last bytes
\* of an item past the header; it happens once, to a store as the sets left
\* it
Damage ==
    /\ last.op = "none" /\ writer.pc = "idle" /\ reader.pc = "idle"
    /\ WellFormed(items)
    /\ \E k \in DOMAIN items :
        \/ /\ k[4] > 0
           /\ items' = [q \in DOMAIN items \ {k} |-> items[q]]
        \/ \E n \in (IF k[4] = 0 THEN HdrSize ELSE 1)..(Len(items[k]) - 1) :
                items' = [items EXCEPT ![k] = SubSeq(@, 1, n)]
    /\ UNCHANGED <<totl, srch, next_xattr_id, dead, last, writer, reader>>

NextFault ==
    SetXattr(UF) \/ Damage \/ GetXattr(UF) \/ PageBegin(UF) \/ PageStep
    \/ PageEnd \/ Drop(UF) \/ Return

SpecFault == Init /\ [][NextFault]_vars

\* the key of part 0 of an attribute of more than one part that the last
\* call was to read by its name, and the first of its parts that is not
\* there
GapKey ==
    CHOOSE k \in RecordsOf(last.pre.items, last.ino, last.name) :
        \A o \in RecordsOf(last.pre.items, last.ino, last.name) : KeyLE(k, o)
GapPart ==
    CHOOSE p \in 1..xattr_nr_parts(last.pre.items[GapKey]) :
        /\ KeyPart(GapKey, p) \notin DOMAIN last.pre.items
        /\ \A q \in 1..(p - 1) : KeyPart(GapKey, q) \in DOMAIN last.pre.items

\* the last call is a getxattr of a name whose attribute has part 0 and
\* lacks one of its later parts
HasGap ==
    /\ last.op = "get"
    /\ HasRecord(last.pre.items, last.ino, last.name)
    /\ \E p \in 1..(xattr_nr_parts(last.pre.items[GapKey]) - 1) :
            KeyPart(GapKey, p) \notin DOMAIN last.pre.items

\* the bytes of the buffer that getxattr reads the items into
GetBytes == HdrSize + Len(last.name) + last.size

\* C24 as stated: a getxattr of a name whose attribute has part 0 and
\* lacks a later part returns the I/O error.
GapAlwaysFaults == HasGap => last.ret = EIO

\* C24: a getxattr of a name whose attribute has part 0 and lacks the
\* part k returns the I/O error when its buffer reaches past the parts
\* before k; with a buffer that ends in the parts before k it returns the
\* recorded length for a size of 0 and the range error otherwise.  It
\* never returns not-found and never a value.
GapFaults ==
    HasGap =>
        /\ last.ret # ENODATA
        /\ last.buffer = <<>>
        /\ GetBytes > GapPart * PartSize => last.ret = EIO
        /\ GetBytes <= GapPart * PartSize =>
                last.ret = IF last.size = 0
                           THEN xat_val_len(last.pre.items[GapKey])
                           ELSE ERANGE

\* a getxattr with a buffer for the whole value of an attribute of three
\* parts that lacks its part 1
GapFaultsWitness ==
    /\ HasGap /\ xattr_nr_parts(last.pre.items[GapKey]) = 3
    /\ GapPart = 1 /\ last.size = 26 /\ last.ret = EIO


\* the first parts of the inode ino that hold fewer bytes than their header
\* and the name it records
Truncated(its, ino) ==
    {k \in DOMAIN its :
        /\ k[1] = ino /\ k[4] = 0
        /\ Len(its[k]) < HdrSize + xat_name_len(its[k])}

\* C25: a getxattr that comes upon a first part that holds fewer bytes
\* than its header and the name it records, a name that the buffer of the
\* lookup has room for, returns the I/O error; a listing returns the I/O
\* error and does not move its cursor past such a first part, and puts no
\* byte into the caller's buffer that no item delivered.
TruncatedNameFaults ==
    /\ last.op = "get" =>
        \A k \in Truncated(last.pre.items, last.ino) :
            (/\ k[2] = xattr_name_hash(last.name)
             /\ xat_name_len(last.pre.items[k]) <= Len(last.name)
             /\ \A o \in DOMAIN last.pre.items :
                    o[1] = k[1] /\ o[2] = k[2] => KeyLE(k, o))
            => last.ret = EIO
    /\ last.op = "page" =>
        /\ Stale \notin Range(last.buffer)
        /\ \A k \in Truncated(items, last.ino) :
                ~KeyLess(k, <<last.ino, last.hash_pos, last.id_pos, 0>>)


\* the number of the calls call of the last trace that succeeded
Succeeded(call) ==
    Cardinality({i \in PlacesOf(call) : last.trace[i].ret = 0})

\* C28: however drop returns, it released the total lock if it took it,
\* and it left every transaction that it entered.
DropReleases ==
    last.op = "drop" =>
        /\ Succeeded("lock_totl") = Succeeded("unlock_totl")
        /\ Succeeded("hold_trans") = Succeeded("release_trans")


\* ------------------------------------------------------------------------
\* Locks and transactions of set, remove and drop
\* ------------------------------------------------------------------------

\* before the place i of the last trace more calls acq succeeded than
\* calls rel were made: what acq takes is held
HeldBefore(i, acq, rel) ==
    Cardinality({j \in PlacesOf(acq) : j < i /\ last.trace[j].ret = 0})
        > Cardinality({j \in PlacesOf(rel) : j < i})

\* the name carries the totl tag
IsTotl(name) ==
    \E p \in {scoutfs_xattr_parse_tags(name, FmtVers)} :
        p.ret = 0 /\ p.tgs.totl = 1

\* at the place i of the trace of a drop the first item left is part 0 of
\* a totaled attribute
DropAtTotl(i) ==
    \E k \in KeysOf(last.pre.items, last.ino) :
        /\ k[4] = 0 /\ IsTotl(xat_name(last.pre.items[k]))
        /\ \A o \in KeysOf(last.pre.items, last.ino) :
            KeyLess(o, k) =>
                \E j \in PlacesOf("delete") :
                    j < i /\ last.trace[j].key = o /\ last.trace[j].ret = 0

HeldAfter(acq, rel) == HeldBefore(Len(last.trace) + 1, acq, rel)

\* C27: a set or remove that returns before the inode lock made no call
\* and holds nothing; one that took the inode lock returns, whatever the
\* result, with the guard and the inode lock released once, the total
\* lock released if it was taken, and the transaction released once if
\* and only if it was entered.
SetReleases ==
    last.op \in {"set", "remove"} =>
        IF "lock_inode" \notin Calls(last.trace) THEN last.trace = <<>>
        ELSE /\ last.trace[1].call = "lock_inode"
             /\ last.trace[2].call = "down_write"
             /\ Cardinality(PlacesOf("lock_inode")) = 1
             /\ Cardinality(PlacesOf("down_write")) = 1
             /\ Cardinality(PlacesOf("up_write")) = 1
             /\ Cardinality(PlacesOf("unlock_inode")) = 1
             /\ Succeeded("lock_totl") = Cardinality(PlacesOf("unlock_totl"))
             /\ Succeeded("hold_trans") = Cardinality(PlacesOf("release_trans"))
             /\ Succeeded("hold_trans") <= 1
             /\ \A i \in PlacesOf("release_trans") :
                    HeldBefore(i, "hold_trans", "release_trans")
             /\ \A i \in PlacesOf("unlock_totl") :
                    HeldBefore(i, "lock_totl", "unlock_totl")
             /\ \A i \in PlacesOf("up_write") \cup PlacesOf("unlock_inode")
                            \cup PlacesOf("unlock_totl") :
                    ~HeldBefore(i, "hold_trans", "release_trans")
             /\ ~HeldAfter("lock_inode", "unlock_inode")
             /\ ~HeldAfter("down_write", "up_write")
             /\ ~HeldAfter("lock_totl", "unlock_totl")
             /\ ~HeldAfter("hold_trans", "release_trans")

\* a set of a totaled attribute that failed inside its transaction and
\* returned with the four released
SetReleasesWitness ==
    /\ last.op = "set" /\ last.ret = ENOMEM
    /\ Succeeded("lock_totl") = 1 /\ Succeeded("hold_trans") = 1
    /\ \E e \in Range(CallsOf(last.trace, "create")) : e.ret < 0
    /\ Cardinality(PlacesOf("release_trans")) = 1
    /\ Cardinality(PlacesOf("unlock_totl")) = 1


\* the places of the last trace where an item is created, overwritten or
\* deleted
Mutations ==
    {i \in PlacesOf("create") \cup PlacesOf("update") \cup PlacesOf("delete") :
        last.trace[i].ret = 0}

\* the transaction of the place i of the last trace: the holds that
\* succeeded before it
BracketOf(i) ==
    Cardinality({j \in PlacesOf("hold_trans") : j < i /\ last.trace[j].ret = 0})

\* C29 as stated: in set, remove and drop every item is created,
\* overwritten and deleted inside a transaction, and the parts of one
\* attribute all inside the same one.
OneBracket ==
    last.op \in {"set", "remove", "drop"} =>
        /\ \A i \in Mutations : HeldBefore(i, "hold_trans", "release_trans")
        /\ \A i, j \in Mutations :
            Group(last.pre.items, last.trace[i].key)
                = Group(last.pre.items, last.trace[j].key)
            => BracketOf(i) = BracketOf(j)

\* C29: in set, remove and drop every item is created, dirtied,
\* overwritten and deleted, and every registration and delta made, inside
\* a transaction.  Set and remove enter one transaction at most.  Drop
\* enters one transaction for each item, the parts of one attribute one
\* after the other, and makes the registration and the delta of an
\* attribute in the transaction that deletes its part 0.
BracketPerItem ==
    last.op \in {"set", "remove", "drop"} =>
        /\ \A i \in Mutations \cup PlacesOf("dirty") \cup PlacesOf("srch")
                        \cup PlacesOf("delta") :
                HeldBefore(i, "hold_trans", "release_trans")
        /\ last.op # "drop" => Succeeded("hold_trans") <= 1
        /\ last.op = "drop" =>
            /\ \A i, j \in Mutations : BracketOf(i) = BracketOf(j) => i = j
            /\ \A i \in PlacesOf("srch") \cup PlacesOf("delta") :
                \E j \in Mutations :
                    /\ j < i /\ BracketOf(j) = BracketOf(i)
                    /\ last.trace[j].call = "delete"
                    /\ last.trace[j].key[4] = 0

\* a drop that deleted the two parts of an attribute in two transactions
\* and a totaled attribute with its delta in one
BracketPerItemWitness ==
    /\ last.op = "drop" /\ last.ret = 0
    /\ \E i, j \in Mutations :
        /\ last.trace[i].key = KeyPart(last.trace[j].key, 0)
        /\ last.trace[j].key[4] = 1
        /\ BracketOf(j) = BracketOf(i) + 1
    /\ PlacesOf("delta") # {}


\* the calls call of the last trace that succeeded, in their order
Done(call) == SelectSeq(CallsOf(last.trace, call), LAMBDA e : e.ret = 0)

\* the name carries the srch tag
IsSrch(name) ==
    \E p \in {scoutfs_xattr_parse_tags(name, FmtVers)} :
        p.ret = 0 /\ p.tgs.srch = 1

\* the last call of set or remove got to the registration or the delta
\* and failed there or after
FailedAfter(call) ==
    /\ last.op \in {"set", "remove"} /\ last.ret < 0
    /\ Done(call) # <<>>

\* C30: a set or remove that fails after it registered its (hash, inode,
\* id) registers the same a second time, and one that fails after it
\* applied its delta applies the negated delta, both before it releases
\* the transaction: a call that returns an error registered zero or two
\* times and changed the total by nothing; a create or a delete of a
\* searchable attribute that succeeds registers once, with the hash of the
\* name and the id of the attribute, and a replace never registers.
UndoOnError ==
    last.op \in {"set", "remove"} =>
        /\ \A i \in PlacesOf("srch") \cup PlacesOf("delta"),
              j \in PlacesOf("release_trans") : i < j
        /\ \A e \in Range(CallsOf(last.trace, "srch")) :
                e.key[1] = scoutfs_hash64(last.name) /\ e.key[2] = last.ino
        /\ FailedAfter("srch") =>
                /\ Len(Done("srch")) = 2
                /\ Done("srch")[1].key = Done("srch")[2].key
        /\ FailedAfter("delta") =>
                /\ Len(Done("delta")) = 2
                /\ Done("delta")[1].key = Done("delta")[2].key
                /\ Done("delta")[2].arg
                    = [total |-> U64Neg(Done("delta")[1].arg.total),
                       count |-> U64Neg(Done("delta")[1].arg.count)]
        /\ last.ret < 0 =>
                /\ srch = last.pre.srch
                /\ totl = last.pre.totl
        /\ (last.ret = 0 /\ IsSrch(last.name)
                /\ (last.value = NULL
                    \/ ~HasRecord(last.pre.items, last.ino, last.name))
                /\ "hold_trans" \in Calls(last.trace)) =>
                /\ Len(Done("srch")) = 1
                /\ \E k \in RecordsOf(IF last.value = NULL THEN last.pre.items
                                      ELSE items, last.ino, last.name) :
                        Done("srch")[1].key[3] = k[3]
        /\ (last.value # NULL
                /\ HasRecord(last.pre.items, last.ino, last.name)) =>
                CallsOf(last.trace, "srch") = <<>>

\* the create of a searchable and totaled attribute failed at its item:
\* two registrations, the delta and the negated delta
UndoOnErrorWitness ==
    /\ last.op = "set" /\ last.ret = ENOMEM
    /\ \E e \in Range(CallsOf(last.trace, "create")) : e.ret < 0
    /\ Len(Done("srch")) = 2
    /\ Len(Done("delta")) = 2


\* ------------------------------------------------------------------------
\* Ids, records and frames
\* ------------------------------------------------------------------------

\* the keys of the first parts of the inode ino
RecordKeys(its, ino) == {k \in DOMAIN its : k[1] = ino /\ k[4] = 0}

\* C31: the counter of an inode never goes down and goes up by one only
\* in a set with a value of a name that has no record, whose record gets
\* the id the counter had; a replace keeps the key of the record; no two
\* records of an inode have one id, and every id stored is below the
\* counter, so that it is not handed out again.
IdsUnique ==
    /\ \A k1, k2 \in DOMAIN items :
        (k1[1] = k2[1] /\ k1[4] = 0 /\ k2[4] = 0 /\ k1[3] = k2[3]) => k1 = k2
    /\ \A k \in DOMAIN items : k[3] < next_xattr_id[k[1]]
    /\ last.op \in {"set", "remove"} =>
        /\ next_xattr_id[last.ino] >= last.pre.next_id[last.ino]
        /\ next_xattr_id[last.ino] # last.pre.next_id[last.ino] =>
            /\ next_xattr_id[last.ino] = last.pre.next_id[last.ino] + 1
            /\ last.value # NULL
            /\ ~HasRecord(last.pre.items, last.ino, last.name)
        /\ \A k \in RecordKeys(items, last.ino)
                        \ RecordKeys(last.pre.items, last.ino) :
                k[3] = last.pre.next_id[last.ino]
        /\ (last.value # NULL /\ last.ret = 0
                /\ HasRecord(last.pre.items, last.ino, last.name)) =>
                RecordsOf(items, last.ino, last.name)
                    = RecordsOf(last.pre.items, last.ino, last.name)

\* an attribute is created with the id 1 next to one of the same hash
\* with the id 0
IdsUniqueWitness ==
    /\ IsCreate /\ last.ret = 0
    /\ \E k1, k2 \in RecordKeys(items, last.ino) :
        k1[2] = k2[2] /\ k1[3] = 0 /\ k2[3] = 1
    /\ last.pre.next_id[last.ino] = 1


\* the calls call of the last trace that returned an error
Failed(call) ==
    {i \in PlacesOf(call) : last.trace[i].ret < 0}

\* C32: a set or remove whose hold of the transaction fails, or whose
\* dirtying of the inode item fails, returns that error with the items,
\* the totals and the registrations as they were, without a call on an
\* item, a registration or a delta, and without the update of the inode
\* and of its write-once state; a failed hold is not released and a hold
\* that asks for a retry is followed at once by the next hold.
EntryFails ==
    last.op \in {"set", "remove"} =>
        /\ \A i \in Failed("hold_trans") \cup Failed("dirty_inode") :
            /\ last.ret = last.trace[i].ret
            /\ items = last.pre.items
            /\ totl = last.pre.totl
            /\ srch = last.pre.srch
            /\ Calls(last.trace)
                \cap {"create", "dirty", "update", "delete", "srch", "delta",
                      "update_inode", "set_worm"} = {}
            /\ Cardinality(PlacesOf("release_trans"))
                = IF last.trace[i].call = "hold_trans" THEN 0 ELSE 1
        /\ \A i \in PlacesOf("hold_trans") :
            last.trace[i].ret > 0 =>
                /\ i < Len(last.trace)
                /\ last.trace[i + 1].call = "hold_trans"

\* the dirtying of the inode item failed in a set of the write-once
\* attribute that is stored
EntryFailsWitness ==
    /\ last.op = "set" /\ last.ret = ENOMEM
    /\ Failed("dirty_inode") # {}
    /\ last.name = NameW
    /\ HasRecord(items, last.ino, last.name)
    /\ Succeeded("hold_trans") = 1


\* the bytes of the last part of the attribute whose part 0 is at k
LastLen(k) == Len(items[KeyPart(k, xattr_nr_parts(items[k]) - 1)])

\* the attribute whose part 0 is at k has the parts 0..n-1 for the n of
\* its header and no other, each but the last of PartSize bytes, and the
\* bytes of all of them are the header, the name and the value
PartsFill(k) ==
    /\ {o[4] : o \in Group(items, k)} = 0..(xattr_nr_parts(items[k]) - 1)
    /\ \A i \in 0..(xattr_nr_parts(items[k]) - 2) :
            Len(items[KeyPart(k, i)]) = PartSize
    /\ (xattr_nr_parts(items[k]) - 1) * PartSize + LastLen(k)
            = xattr_full_bytes(items[k])

\* C33 as stated: every attribute stored has its parts but the last full
\* and its bytes in them, and a last part that is not empty and not full,
\* or empty when the bytes are a multiple of PartSize.
LastPartNotFull ==
    \A k \in DOMAIN items :
        k[4] = 0 =>
            /\ PartsFill(k)
            /\ \/ LastLen(k) > 0 /\ LastLen(k) < PartSize
               \/ LastLen(k) = 0 /\ xattr_full_bytes(items[k]) % PartSize = 0

\* C33: every attribute stored has its parts but the last full and its
\* bytes in them, and a last part of 1 to PartSize bytes, which is full
\* exactly when the bytes are a multiple of PartSize; no part is empty.
PartSizes ==
    \A k \in DOMAIN items :
        k[4] = 0 =>
            /\ PartsFill(k)
            /\ LastLen(k) \in 1..PartSize
            /\ LastLen(k) = PartSize <=> xattr_full_bytes(items[k]) % PartSize = 0

\* an attribute of two full parts is stored by a change of one of another
\* length
PartSizesWitness ==
    /\ last.op = "set_get" /\ last.ret = 0
    /\ HasRecord(last.pre.items, last.ino, last.name)
    /\ \E k \in RecordsOf(items, last.ino, last.name) :
        /\ xattr_full_bytes(items[k]) = 2 * PartSize
        /\ LastLen(k) = PartSize
        /\ items[k] # last.pre.items[k]


\* the key k is of a part of the attribute of the name of the last call,
\* as it was before the call or as it is after it
OwnPart(k) ==
    \E z \in RecordsOf(last.pre.items, last.ino, last.name)
                \cup RecordsOf(items, last.ino, last.name) :
        k[1] = z[1] /\ k[2] = z[2] /\ k[3] = z[3]

\* C34: a set or remove of a name on an inode, whatever it returns,
\* leaves the items of every other attribute of the inode, those of the
\* same name hash among them, and the items of every other inode as they
\* were.
OthersUnchanged ==
    last.op \in {"set", "remove", "set_get"} =>
        \A k \in DOMAIN last.pre.items \cup DOMAIN items :
            ~OwnPart(k) =>
                /\ k \in DOMAIN last.pre.items /\ k \in DOMAIN items
                /\ items[k] = last.pre.items[k]

\* an attribute is changed and another is removed next to an attribute of
\* the same hash, while the other inode holds an attribute of that hash
\* and id
OthersUnchangedWitness ==
    /\ last.op \in {"set", "remove"} /\ last.ret = 0
    /\ items # last.pre.items
    /\ HasRecord(last.pre.items, last.ino, last.name)
    /\ \E k \in DOMAIN items, z \in RecordsOf(last.pre.items, last.ino, last.name) :
        k[1] = z[1] /\ k[2] = z[2] /\ k[3] # z[3]
    /\ \E k \in DOMAIN items, z \in RecordsOf(last.pre.items, last.ino, last.name) :
        k[1] # z[1] /\ k[2] = z[2] /\ k[3] = z[3]


\* C35: in every state an inode holds at most one record of a name; a set
\* with a value of a name that has a record, whatever it returns, adds no
\* record and takes no id, and when it succeeds the record of the name is
\* under the key it had.
OneRecordPerName ==
    /\ \A k1, k2 \in DOMAIN items :
        (/\ k1[1] = k2[1] /\ k1[4] = 0 /\ k2[4] = 0
         /\ xat_name(items[k1]) = xat_name(items[k2])) => k1 = k2
    /\ (/\ last.op \in {"set", "set_get"} /\ last.value # NULL
        /\ HasRecord(last.pre.items, last.ino, last.name)) =>
            /\ RecordKeys(items, last.ino)
                    \subseteq RecordKeys(last.pre.items, last.ino)
            /\ next_xattr_id = last.pre.next_id
            /\ Cardinality(RecordsOf(items, last.ino, last.name)) <= 1
            /\ last.ret = 0 =>
                    RecordsOf(items, last.ino, last.name)
                        = RecordsOf(last.pre.items, last.ino, last.name)

\* a set replaces the value of a name whose record comes after the record
\* of another name of the same hash
OneRecordPerNameWitness ==
    /\ last.op \in {"set", "set_get"} /\ last.value # NULL /\ last.ret = 0
    /\ \E k \in RecordsOf(items, last.ino, last.name) :
        /\ k \in DOMAIN last.pre.items
        /\ items[k] # last.pre.items[k]
        /\ \E o \in RecordKeys(items, last.ino) :
            o[2] = k[2] /\ o[3] < k[3]

=============================================================================
